---- MODULE Spec2Model ----
(***************************************************************************)
(* Verification model of claude-openai-bridge: the Claude -> OpenAI        *)
(* request converter (tool-use / tool-result pairing) and the two         *)
(* streaming translators (Chat and Responses) that turn an upstream SSE    *)
(* stream into Claude's content-block event sequence.                      *)
(*                                                                         *)
(* Strings that the code trims or parses are sequences of one-character    *)
(* strings, so that trimming and JSON completeness are computed.           *)
(*                                                                         *)
(* Further parts: the session manager (state.rs), alone and shared by      *)
(* concurrent tasks, model routing and reasoning effort, the decoding of   *)
(* upstream replies, and client authentication in create_message.          *)
(***************************************************************************)
EXTENDS Integers, Sequences, FiniteSets, TLC

VARIABLES
    \* ---- request conversion (conversion/request) ----
    claude_messages,    \* request.messages, the converter's input
    openai_messages,    \* OpenAiChatRequest.messages
    responses_input,    \* OpenAiResponsesRequest.input
    conv_pc,            \* "request" -> "chat" -> "responses" ("idle" when unused)
    \* ---- streaming (conversion/stream) ----
    wire,               \* "chat" | "responses" ("idle" when unused)
    pc,                 \* position of the stream task
    line_buffer,        \* complete upstream lines not yet consumed
    tail_done,          \* the unterminated tail of line_buffer reads "data: [DONE]"
    state,              \* StreamState
    context,            \* ResponsesStreamContext
    frames,             \* frames the downstream writer accepted, in order
    failed_sends,       \* send attempts the downstream writer rejected
    writer_cap,         \* the writer accepts this many frames, then the client is gone
    processed,          \* upstream lines consumed so far (history)
    lines_read,         \* number of upstream lines received
    \* ---- session manager (state.rs) ----
    manager,            \* SessionManager: ttl_min, ttl_max, cleanup_interval (seconds)
    store,              \* SessionStore: sessions (identity -> SessionEntry), last_cleanup
    clock,              \* Instant::now(), in seconds since the manager was built
    next_uuid,          \* number of session ids issued so far
    session_log,        \* resolve results and evictions, in order (history)
    last_call,          \* the last call of the manager: operation, arguments, result
    session_steps,      \* number of steps taken
    tasks,              \* concurrent tasks that use the manager: position and locals
    lock,               \* holder of the write guard of SessionManager.inner
    \* ---- non-streaming call (conversion/request, upstream.rs) ----
    claude_request,     \* ClaudeMessagesRequest: model, thinking, max_tokens
    bridge_config,      \* Config: big_model, middle_model, small_model
    openai_request,     \* OpenAiChatRequest: model, reasoning_effort
    upstream_reply,     \* buffered upstream reply: status, content_type, body
    upstream_result,    \* Result of the client facade
    call_pc,            \* "request" -> "mapped" -> "converted" -> "decoded" ("idle" when unused)
    \* ---- POST /v1/messages (handlers.rs) ----
    http_request,       \* Request: x-api-key and authorization headers, body, peer
    anthropic_api_key,  \* Config.anthropic_api_key
    http_response,      \* status code of the Response, 0 while none is set
    handler_pc,         \* position of create_message ("idle" when unused)
    upstream_sent       \* number of requests sent upstream

conv_vars == <<claude_messages, openai_messages, responses_input, conv_pc>>
stream_vars == <<wire, pc, line_buffer, tail_done, state, context, frames,
                 failed_sends, writer_cap, processed, lines_read>>
session_vars == <<manager, store, clock, next_uuid, session_log, last_call,
                  session_steps, tasks, lock>>
handler_vars == <<http_request, anthropic_api_key, http_response, handler_pc,
                  upstream_sent>>
call_vars == <<claude_request, bridge_config, openai_request, upstream_reply,
               upstream_result, call_pc, handler_vars>>
vars == <<claude_messages, openai_messages, responses_input, conv_pc,
          wire, pc, line_buffer, tail_done, state, context, frames,
          failed_sends, writer_cap, processed, lines_read,
          manager, store, clock, next_uuid, session_log, last_call, session_steps,
          tasks, lock,
          claude_request, bridge_config, openai_request, upstream_reply,
          upstream_result, call_pc,
          http_request, anthropic_api_key, http_response, handler_pc, upstream_sent>>

(***************************************************************************)
(* Bounds                                                                  *)
(***************************************************************************)
MaxMessages == 3
MaxLines == 3
MaxSessionSteps == 4
MaxTokens == 15000000  \* stands for u64::MAX, where total_tokens saturates
MaxTicks == 4  \* clock readings the concurrent tasks can tell apart
MaxRequests == 2  \* requests one run of create_message serves

(***************************************************************************)
(* Strings                                                                 *)
(***************************************************************************)
None == <<"<none>">>

IsSome(v) == v # None

IsWhitespace(c) == c = " "

RECURSIVE TrimStart(_)
TrimStart(s) ==
    IF s = <<>> THEN s
    ELSE IF IsWhitespace(Head(s)) THEN TrimStart(Tail(s)) ELSE s

RECURSIVE TrimEnd(_)
TrimEnd(s) ==
    IF s = <<>> THEN s
    ELSE IF IsWhitespace(s[Len(s)]) THEN TrimEnd(SubSeq(s, 1, Len(s) - 1)) ELSE s

\* str::trim
Trim(s) == TrimEnd(TrimStart(s))

\* the strings the inputs are built from
IdA == <<"a">>
IdB == <<"b">>
IdAPadded == <<" ", "a">>
IdAPaddedEnd == <<"a", " ">>
IdBlank == <<" ">>
NameF == <<"f">>
SomeText == <<"t">>

Concat(parts) ==
    LET RECURSIVE Go(_, _)
        Go(i, acc) == IF i > Len(parts) THEN acc ELSE Go(i + 1, acc \o parts[i])
    IN Go(1, <<>>)

(***************************************************************************)
(* Claude request model (models.rs) and upstream messages (request/models) *)
(***************************************************************************)
ROLE_USER == "user"
ROLE_ASSISTANT == "assistant"
ROLE_SYSTEM == "system"
ROLE_TOOL == "tool"

\* ClaudeContentBlock variants
TextBlock(text) == [type |-> "text", id |-> None, name |-> None, text |-> text]
ToolUseBlock(id, name) == [type |-> "tool_use", id |-> id, name |-> name, text |-> None]
ToolResultBlock(id) == [type |-> "tool_result", id |-> id, name |-> None, text |-> None]
UnknownBlock == [type |-> "unknown", id |-> None, name |-> None, text |-> None]

\* ClaudeContent variants; "none" is a message without content
TextContent(text) == [kind |-> "text", text |-> text, blocks |-> <<>>]
BlocksContent(blocks) == [kind |-> "blocks", text |-> None, blocks |-> blocks]
OtherContent == [kind |-> "other", text |-> None, blocks |-> <<>>]
NoContent == [kind |-> "none", text |-> None, blocks |-> <<>>]

ClaudeMessage(role, content) == [role |-> role, content |-> content]

\* OpenAiMessage variants. content is <<"null">> for a null assistant content,
\* <<"text", t>> for a scalar and <<"parts", n>> for an array of n parts.
OpenAiToolCall(id, name) == [id |-> id, name |-> name]
OpenAiAssistantMessage(content, tool_calls) ==
    [role |-> ROLE_ASSISTANT, content |-> content, tool_calls |-> tool_calls,
     tool_call_id |-> None]
OpenAiToolMessage(tool_call_id) ==
    [role |-> ROLE_TOOL, content |-> <<"text", <<"o">>>>, tool_calls |-> <<>>,
     tool_call_id |-> tool_call_id]
OpenAiUserMessage(content) ==
    [role |-> ROLE_USER, content |-> content, tool_calls |-> <<>>, tool_call_id |-> None]

(***************************************************************************)
(* conversion/request/assistant.rs                                         *)
(***************************************************************************)
\* Option<OpenAiToolCall> as a sequence of length 0 or 1
build_tool_call(id, name) ==
    IF ~IsSome(id) THEN <<>>
    ELSE IF ~IsSome(name) THEN <<>>
    ELSE IF Trim(id) = <<>> THEN <<>>
    ELSE IF Trim(name) = <<>> THEN <<>>
    ELSE <<OpenAiToolCall(Trim(id), Trim(name))>>

RECURSIVE extract_assistant_parts(_)
extract_assistant_parts(blocks) ==
    IF blocks = <<>> THEN [text_parts |-> <<>>, tool_calls |-> <<>>]
    ELSE LET block == Head(blocks)
             rest == extract_assistant_parts(Tail(blocks))
         IN CASE block.type = "text" ->
                    [rest EXCEPT !.text_parts = <<block.text>> \o @]
              [] block.type = "tool_use" ->
                    [rest EXCEPT !.tool_calls = build_tool_call(block.id, block.name) \o @]
              [] OTHER -> rest

convert_claude_assistant_message(message) ==
    LET content == message.content
    IN CASE content.kind = "none" -> OpenAiAssistantMessage(<<"null">>, <<>>)
         [] content.kind = "text" -> OpenAiAssistantMessage(<<"text", content.text>>, <<>>)
         [] content.kind = "blocks" ->
                LET parts == extract_assistant_parts(content.blocks)
                IN OpenAiAssistantMessage(
                       IF parts.text_parts = <<>> THEN <<"null">>
                       ELSE <<"text", Concat(parts.text_parts)>>,
                       parts.tool_calls)
         [] OTHER -> OpenAiAssistantMessage(<<"null">>, <<>>)

(***************************************************************************)
(* conversion/request/tool_result.rs                                       *)
(***************************************************************************)
\* Option<OpenAiToolMessage> as a sequence of length 0 or 1
convert_tool_result_block(block) ==
    IF block.type # "tool_result" THEN <<>>
    ELSE IF ~IsSome(block.id) THEN <<>>
    ELSE IF Trim(block.id) = <<>> THEN <<>>
    ELSE <<OpenAiToolMessage(Trim(block.id))>>

RECURSIVE convert_tool_result_blocks(_)
convert_tool_result_blocks(blocks) ==
    IF blocks = <<>> THEN <<>>
    ELSE convert_tool_result_block(Head(blocks)) \o convert_tool_result_blocks(Tail(blocks))

convert_claude_tool_results(message) ==
    IF message.content.kind # "blocks" THEN <<>>
    ELSE convert_tool_result_blocks(message.content.blocks)

is_tool_result_user_message(message) ==
    /\ message.role = ROLE_USER
    /\ message.content.kind = "blocks"
    /\ \E i \in DOMAIN message.content.blocks :
           message.content.blocks[i].type = "tool_result"

has_non_tool_result_content(message) ==
    /\ message.role = ROLE_USER
    /\ CASE message.content.kind = "text" -> TRUE
         [] message.content.kind = "blocks" ->
                \E i \in DOMAIN message.content.blocks :
                    message.content.blocks[i].type # "tool_result"
         [] OTHER -> FALSE

(***************************************************************************)
(* conversion/request/user.rs                                              *)
(***************************************************************************)
\* the text parts a user message keeps (image blocks are not modelled)
RECURSIVE convert_user_blocks(_)
convert_user_blocks(blocks) ==
    IF blocks = <<>> THEN <<>>
    ELSE (IF Head(blocks).type = "text" THEN <<Head(blocks).text>> ELSE <<>>)
             \o convert_user_blocks(Tail(blocks))

convert_claude_user_message(message) ==
    LET content == message.content
    IN CASE content.kind = "none" -> OpenAiUserMessage(<<"text", <<>>>>)
         [] content.kind = "text" -> OpenAiUserMessage(<<"text", content.text>>)
         [] content.kind = "blocks" ->
                LET openai_content == convert_user_blocks(content.blocks)
                IN IF Len(openai_content) = 1
                   THEN OpenAiUserMessage(<<"text", openai_content[1]>>)
                   ELSE OpenAiUserMessage(<<"parts", Len(openai_content)>>)
         [] OTHER -> OpenAiUserMessage(<<"text", <<>>>>)

(***************************************************************************)
(* conversion/request/mod.rs: convert_message_list                         *)
(***************************************************************************)
\* the ids of the tool calls of an assistant message that enter seen_tool_call_ids
SeenIdsOf(tool_calls) ==
    {Trim(tool_calls[i].id) : i \in DOMAIN tool_calls} \ {<<>>}

\* mod.rs:129 with the membership test lost
IsKnownToolCallIdAlways(seen_tool_call_ids, tool_call_id) == TRUE

\* mod.rs:128-129: the tool message is kept iff its trimmed id was seen
IsKnownToolCallId(seen_tool_call_ids, tool_call_id) ==
    Trim(tool_call_id) \in seen_tool_call_ids

RECURSIVE KeepKnownToolMessages(_, _)
KeepKnownToolMessages(tool_messages, seen_tool_call_ids) ==
    IF tool_messages = <<>> THEN <<>>
    ELSE (IF IsKnownToolCallId(seen_tool_call_ids, Head(tool_messages).tool_call_id)
          THEN <<Head(tool_messages)>> ELSE <<>>)
             \o KeepKnownToolMessages(Tail(tool_messages), seen_tool_call_ids)

\* mod.rs:115-179 with a tool-result user message converted to tool messages only
ConvertOneMessageToolResultsOnly(acc, message) ==
    CASE message.role = ROLE_USER ->
            IF is_tool_result_user_message(message)
            THEN [acc EXCEPT !.out = @ \o KeepKnownToolMessages(
                                              convert_claude_tool_results(message), acc.seen)]
            ELSE IF has_non_tool_result_content(message)
            THEN [acc EXCEPT !.out = Append(@, convert_claude_user_message(message))]
            ELSE acc
      [] message.role = ROLE_ASSISTANT ->
            LET assistant_message == convert_claude_assistant_message(message)
            IN [out |-> Append(acc.out, assistant_message),
                seen |-> acc.seen \cup SeenIdsOf(assistant_message.tool_calls)]
      [] OTHER -> acc

\* one iteration of the loop over messages; acc = [out, seen]
ConvertOneMessage(acc, message) ==
    CASE message.role = ROLE_USER ->
            LET tools == IF is_tool_result_user_message(message)
                         THEN KeepKnownToolMessages(convert_claude_tool_results(message),
                                                    acc.seen)
                         ELSE <<>>
                user == IF has_non_tool_result_content(message)
                        THEN <<convert_claude_user_message(message)>>
                        ELSE <<>>
            IN [acc EXCEPT !.out = @ \o tools \o user]
      [] message.role = ROLE_ASSISTANT ->
            LET assistant_message == convert_claude_assistant_message(message)
            IN [out |-> Append(acc.out, assistant_message),
                seen |-> acc.seen \cup SeenIdsOf(assistant_message.tool_calls)]
      [] OTHER -> acc

RECURSIVE ConvertFrom(_, _, _)
ConvertFrom(messages, i, acc) ==
    IF i > Len(messages) THEN acc
    ELSE ConvertFrom(messages, i + 1, ConvertOneMessage(acc, messages[i]))

convert_message_list(messages) ==
    ConvertFrom(messages, 1, [out |-> <<>>, seen |-> {}]).out

(***************************************************************************)
(* conversion/request/responses_convert.rs                                 *)
(***************************************************************************)
MessageItem(role) == [type |-> "message", role |-> role, call_id |-> None]
FunctionCallItem(call_id) == [type |-> "function_call", role |-> None, call_id |-> call_id]
FunctionCallOutputItem(call_id) ==
    [type |-> "function_call_output", role |-> None, call_id |-> call_id]

push_assistant_text(content) ==
    IF content[1] # "text" THEN <<>>
    ELSE IF Trim(content[2]) = <<>> THEN <<>>
    ELSE <<MessageItem(ROLE_ASSISTANT)>>

push_assistant_tool_calls(tool_calls) ==
    [i \in DOMAIN tool_calls |-> FunctionCallItem(tool_calls[i].id)]

convert_message_to_input_item(message) ==
    CASE message.role = ROLE_SYSTEM -> <<>>
      [] message.role = ROLE_USER -> <<MessageItem(ROLE_USER)>>
      [] message.role = ROLE_ASSISTANT ->
            push_assistant_text(message.content) \o push_assistant_tool_calls(message.tool_calls)
      [] OTHER -> <<FunctionCallOutputItem(message.tool_call_id)>>

RECURSIVE convert_chat_request_to_responses(_)
convert_chat_request_to_responses(messages) ==
    IF messages = <<>> THEN <<>>
    ELSE convert_message_to_input_item(Head(messages))
             \o convert_chat_request_to_responses(Tail(messages))

(***************************************************************************)
(* Streaming: frames, StreamState (conversion/stream/state.rs)             *)
(***************************************************************************)
\* Option<usize> as a sequence of length 0 or 1
NoIndex == <<>>
SomeIndex(i) == <<i>>

ZeroUsage == [input_tokens |-> 0, output_tokens |-> 0, cache_read_input_tokens |-> 0]

STOP_END_TURN == "end_turn"
STOP_MAX_TOKENS == "max_tokens"
STOP_TOOL_USE == "tool_use"

\* one SSE frame: event name, block index (NoIndex for message-level frames),
\* block or delta type, string payload, usage and stop_reason (message_delta)
Frame(ev, index, kind, text) ==
    [ev |-> ev, index |-> index, kind |-> kind, text |-> text,
     usage |-> ZeroUsage, stop_reason |-> ""]

\* StreamingToolCallState::default (models.rs:141-149)
DefaultToolCallState ==
    [id |-> None, name |-> None, args_buffer |-> <<>>, json_sent |-> FALSE,
     claude_index |-> NoIndex, started |-> FALSE]

text_block_index == 0

\* StreamState::new
NewStreamState(thinking_requested) ==
    [thinking_block_index |-> NoIndex,
     thinking_started |-> FALSE,
     thinking_requested |-> thinking_requested,
     saw_thinking_delta |-> FALSE,
     tool_block_counter |-> 0,
     tool_calls |-> <<>>,
     final_stop_reason |-> STOP_END_TURN,
     usage_data |-> ZeroUsage]

\* ResponsesStreamContext::default
NewResponsesStreamContext ==
    [next_tool_index |-> 0, tool_index_by_call_id |-> <<>>, tool_index_by_item_id |-> <<>>]

started_tool_index(tool_call_state) ==
    IF ~tool_call_state.started THEN NoIndex ELSE tool_call_state.claude_index

\* BTreeMap::entry(k).or_default()
EntryOrDefault(tool_calls, k) ==
    IF k \in DOMAIN tool_calls THEN tool_calls
    ELSE [i \in DOMAIN tool_calls \cup {k} |->
              IF i = k THEN DefaultToolCallState ELSE tool_calls[i]]

\* HashMap::insert
MapInsert(map, k, v) == [i \in DOMAIN map \cup {k} |-> IF i = k THEN v ELSE map[i]]

\* keys of a BTreeMap in iteration (ascending) order
RECURSIVE SortedKeys(_)
SortedKeys(keys) ==
    IF keys = {} THEN <<>>
    ELSE LET least == CHOOSE k \in keys : \A other \in keys : k <= other
         IN <<least>> \o SortedKeys(keys \ {least})

(***************************************************************************)
(* JSON completeness of an argument buffer.  Argument text is written over *)
(* the alphabet "[", "]", "1": a value is a number 1..1 or an array with   *)
(* at most one element (there is no comma), which is what                  *)
(* serde_json::from_str::<IgnoredAny> accepts over this alphabet.          *)
(***************************************************************************)
RECURSIVE IsCompleteJson(_)
IsCompleteJson(s) ==
    /\ s # <<>>
    /\ \/ \A i \in DOMAIN s : s[i] = "1"
       \/ /\ Len(s) >= 2
          /\ s[1] = "["
          /\ s[Len(s)] = "]"
          /\ (Len(s) = 2 \/ IsCompleteJson(SubSeq(s, 2, Len(s) - 1)))

(***************************************************************************)
(* conversion/stream/sse.rs.  A machine M carries the stream task's data:  *)
(* st (StreamState), ctx, buf (line buffer), log (lines consumed), frames, *)
(* fails, and ok, the io::Result of the last call.                         *)
(***************************************************************************)
Unlimited == 100 * (MaxLines + 1)

\* BodySender::send_data: fails once the client is gone, and for good
send_sse(M, frame) ==
    IF Len(M.frames) < M.cap
    THEN [M EXCEPT !.frames = Append(@, frame), !.ok = TRUE]
    ELSE [M EXCEPT !.fails = @ + 1, !.ok = FALSE]

send_start_sequence(M) ==
    LET M1 == send_sse(M, Frame("message_start", NoIndex, "message", <<>>))
        M2 == send_sse(M1, Frame("content_block_start", SomeIndex(0), "text", <<>>))
    IN IF ~M1.ok THEN M1
       ELSE IF ~M2.ok THEN M2
       ELSE send_sse(M2, Frame("ping", NoIndex, "ping", <<>>))

send_text_delta(M, content_delta) ==
    send_sse(M, Frame("content_block_delta", SomeIndex(text_block_index), "text_delta",
                      content_delta))

send_tool_block_start(M, claude_index, id, name) ==
    send_sse(M, Frame("content_block_start", SomeIndex(claude_index), "tool_use", id))

send_tool_json_delta(M, claude_index, payload_json) ==
    send_sse(M, Frame("content_block_delta", SomeIndex(claude_index), "input_json_delta",
                      payload_json))

\* not in sse.rs as shipped; called by pipeline_responses.rs
send_thinking_block_start(M, claude_index) ==
    send_sse(M, Frame("content_block_start", SomeIndex(claude_index), "thinking", <<>>))

\* not in sse.rs as shipped; called by pipeline_responses.rs
send_thinking_delta(M, claude_index, payload) ==
    send_sse(M, Frame("content_block_delta", SomeIndex(claude_index), "thinking_delta",
                      payload))

\* the loop of send_stop_sequence over state.tool_calls.values()
RECURSIVE SendToolStops(_, _)
SendToolStops(M, keys) ==
    IF keys = <<>> THEN M
    ELSE LET claude_index == started_tool_index(M.st.tool_calls[Head(keys)])
         IN IF claude_index = NoIndex THEN SendToolStops(M, Tail(keys))
            ELSE LET M1 == send_sse(M, Frame("content_block_stop", claude_index, "stop", <<>>))
                 IN IF ~M1.ok THEN M1 ELSE SendToolStops(M1, Tail(keys))

\* the blocks send_stop_sequence closes after block 0, in order
StopSequenceKeys(st) == SortedKeys(DOMAIN st.tool_calls)

MessageDeltaFrame(st) ==
    [Frame("message_delta", NoIndex, "message_delta", <<>>)
        EXCEPT !.usage = st.usage_data, !.stop_reason = st.final_stop_reason]

send_stop_sequence(M) ==
    LET M1 == send_sse(M, Frame("content_block_stop", SomeIndex(text_block_index), "stop", <<>>))
        M2 == SendToolStops(M1, StopSequenceKeys(M1.st))
        M3 == send_sse(M2, MessageDeltaFrame(M2.st))
    IN IF ~M1.ok THEN M1
       ELSE IF ~M2.ok THEN M2
       ELSE IF ~M3.ok THEN M3
       ELSE send_sse(M3, Frame("message_stop", NoIndex, "message_stop", <<>>))

send_error_sse(M) ==
    send_sse(M, Frame("error", NoIndex, "api_error", <<>>))

(***************************************************************************)
(* Chat pipeline: conversion/stream/helpers.rs and pipeline.rs.            *)
(* An upstream line is junk (blank, not a data line, or not JSON), the     *)
(* [DONE] marker, or a JSON chunk.                                         *)
(***************************************************************************)
NoUsage == <<>>

ChatChunk ==
    [kind |-> "json", usage |-> NoUsage, has_choice |-> TRUE, content |-> None,
     tool_calls |-> <<>>, finish_reason |-> None]

ToolCallDelta(index, id, name, arguments) ==
    [index |-> index, id |-> id, name |-> name, arguments |-> arguments]

DoneLine == [ChatChunk EXCEPT !.kind = "done", !.has_choice = FALSE]
JunkLine == [ChatChunk EXCEPT !.kind = "junk", !.has_choice = FALSE]

\* StreamUsage built from an upstream usage object; absent counters read 0
LatchUsage(usage) ==
    [input_tokens |-> usage.input, output_tokens |-> usage.output,
     cache_read_input_tokens |-> IF usage.cached > 0 THEN usage.cached ELSE 0]

\* helpers.rs:16-34 with the counters accumulated instead of replaced
update_usage_adding(st, parsed_chunk) ==
    IF parsed_chunk.usage = NoUsage THEN st
    ELSE [st EXCEPT !.usage_data =
             [input_tokens |-> @.input_tokens + parsed_chunk.usage[1].input,
              output_tokens |-> @.output_tokens + parsed_chunk.usage[1].output,
              cache_read_input_tokens |-> @.cache_read_input_tokens
                                              + parsed_chunk.usage[1].cached]]

update_usage(st, parsed_chunk) ==
    IF parsed_chunk.usage = NoUsage THEN st
    ELSE [st EXCEPT !.usage_data = LatchUsage(parsed_chunk.usage[1])]

map_finish_reason(finish_reason) ==
    CASE finish_reason = <<"length">> -> STOP_MAX_TOKENS
      [] finish_reason \in {<<"tool_calls">>, <<"function_call">>} -> STOP_TOOL_USE
      [] OTHER -> STOP_END_TURN

update_finish_reason(st, choice) ==
    IF ~IsSome(choice.finish_reason) THEN st
    ELSE [st EXCEPT !.final_stop_reason = map_finish_reason(choice.finish_reason)]

tool_call_index(tool_call_delta) ==
    IF tool_call_delta.index = NoIndex THEN 0 ELSE tool_call_delta.index[1]

update_tool_identity(st, tool_call_delta, tool_index) ==
    LET calls == EntryOrDefault(st.tool_calls, tool_index)
        with_id == IF IsSome(tool_call_delta.id)
                   THEN [calls EXCEPT ![tool_index].id = tool_call_delta.id] ELSE calls
        with_name == IF IsSome(tool_call_delta.name)
                     THEN [with_id EXCEPT ![tool_index].name = tool_call_delta.name]
                     ELSE with_id
    IN [st EXCEPT !.tool_calls = with_name]

tool_started(st, tool_index) ==
    tool_index \in DOMAIN st.tool_calls /\ st.tool_calls[tool_index].started

\* helpers.rs:176-196: appends the fragment, then reports the slot
snapshot_json_state(st, tool_index, arguments_delta) ==
    LET buffer == st.tool_calls[tool_index].args_buffer \o arguments_delta
    IN [st |-> [st EXCEPT !.tool_calls[tool_index].args_buffer = buffer],
        json_sent |-> st.tool_calls[tool_index].json_sent,
        has_complete_json |-> IsCompleteJson(buffer),
        claude_index |-> st.tool_calls[tool_index].claude_index,
        payload_json |-> buffer]

CanStart(st, tool_index) ==
    /\ tool_index \in DOMAIN st.tool_calls
    /\ IsSome(st.tool_calls[tool_index].id)
    /\ IsSome(st.tool_calls[tool_index].name)
    /\ ~st.tool_calls[tool_index].started

\* pipeline.rs:163-188 and responses_tools.rs:63-93 with the counter not advanced
maybe_start_tool_block_reusing(M, tool_index) ==
    IF ~CanStart(M.st, tool_index) THEN [M EXCEPT !.ok = TRUE]
    ELSE LET claude_index == text_block_index + M.st.tool_block_counter
             st1 == [M.st EXCEPT !.tool_calls[tool_index].claude_index =
                                     SomeIndex(claude_index),
                                 !.tool_calls[tool_index].started = TRUE]
         IN send_tool_block_start([M EXCEPT !.st = st1], claude_index,
                                  st1.tool_calls[tool_index].id,
                                  st1.tool_calls[tool_index].name)

\* pipeline.rs:163-188 and, with the same body, responses_tools.rs:63-93
maybe_start_tool_block(M, tool_index) ==
    IF ~CanStart(M.st, tool_index) THEN [M EXCEPT !.ok = TRUE]
    ELSE LET counter == M.st.tool_block_counter + 1
             claude_index == text_block_index + counter
             st1 == [M.st EXCEPT !.tool_block_counter = counter,
                                 !.tool_calls[tool_index].claude_index =
                                     SomeIndex(claude_index),
                                 !.tool_calls[tool_index].started = TRUE]
         IN send_tool_block_start([M EXCEPT !.st = st1], claude_index,
                                  st1.tool_calls[tool_index].id,
                                  st1.tool_calls[tool_index].name)

\* pipeline.rs:190-221
send_tool_json_if_ready(M, tool_call_delta, tool_index) ==
    IF ~IsSome(tool_call_delta.arguments) THEN [M EXCEPT !.ok = TRUE]
    ELSE IF ~tool_started(M.st, tool_index) THEN [M EXCEPT !.ok = TRUE]
    ELSE LET snapshot == snapshot_json_state(M.st, tool_index, tool_call_delta.arguments)
             M1 == [M EXCEPT !.st = snapshot.st, !.ok = TRUE]
         IN IF snapshot.json_sent \/ ~snapshot.has_complete_json THEN M1
            ELSE IF snapshot.claude_index = NoIndex THEN M1
            ELSE LET M2 == send_tool_json_delta(M1, snapshot.claude_index[1],
                                                snapshot.payload_json)
                 IN IF ~M2.ok THEN M2
                    ELSE [M2 EXCEPT !.st.tool_calls[tool_index].json_sent = TRUE]

process_single_tool_delta(M, tool_call_delta) ==
    LET tool_index == tool_call_index(tool_call_delta)
        M1 == [M EXCEPT !.st = update_tool_identity(M.st, tool_call_delta, tool_index)]
        M2 == maybe_start_tool_block(M1, tool_index)
    IN IF ~M2.ok THEN M2 ELSE send_tool_json_if_ready(M2, tool_call_delta, tool_index)

RECURSIVE process_tool_deltas(_, _)
process_tool_deltas(M, tool_call_deltas) ==
    IF tool_call_deltas = <<>> THEN [M EXCEPT !.ok = TRUE]
    ELSE LET M1 == process_single_tool_delta(M, Head(tool_call_deltas))
         IN IF ~M1.ok THEN M1 ELSE process_tool_deltas(M1, Tail(tool_call_deltas))

handle_content_delta(M, choice) ==
    IF ~IsSome(choice.content) THEN [M EXCEPT !.ok = TRUE]
    ELSE send_text_delta(M, choice.content)

\* pipeline.rs:85-122; M.stop records that the loop was left on a failed send
RECURSIVE process_complete_lines(_)
process_complete_lines(M) ==
    IF M.buf = <<>> THEN M
    ELSE LET line == Head(M.buf)
             M1 == [M EXCEPT !.buf = Tail(@), !.log = Append(@, line)]
         IN CASE line.kind = "junk" -> process_complete_lines(M1)
              [] line.kind = "done" -> M1
              [] OTHER ->
                    LET M2 == [M1 EXCEPT !.st = update_usage(M1.st, line)]
                        M3 == handle_content_delta(M2, line)
                        M4 == process_tool_deltas(M3, line.tool_calls)
                    IN IF ~line.has_choice THEN process_complete_lines(M2)
                       ELSE IF ~M3.ok THEN M3
                       ELSE IF ~M4.ok THEN M4
                       ELSE process_complete_lines(
                                [M4 EXCEPT !.st = update_finish_reason(M4.st, line)])

\* line_buffer.contains("data: [DONE]") (pipeline.rs:50)
BufferContainsDone(buf, tail) ==
    tail \/ \E i \in DOMAIN buf : buf[i].kind = "done"

(***************************************************************************)
(* Responses pipeline: responses_helpers.rs, responses_tools.rs and        *)
(* pipeline_responses.rs.  An event is the JSON object of one data line:   *)
(* its top-level fields, its "item" object and its "response" object.      *)
(***************************************************************************)
NoItem ==
    [present |-> FALSE, type |-> None, call_id |-> None, id |-> None, name |-> None,
     arguments |-> None, text |-> None, output_index |-> NoIndex]

NoResponse ==
    [present |-> FALSE, usage |-> NoUsage, has_function_call |-> FALSE,
     status |-> None, incomplete_reason |-> None]

ResponsesEvent(type) ==
    [kind |-> "json", type |-> type, output_index |-> NoIndex, call_id |-> None,
     item_id |-> None, name |-> None, delta |-> None, text |-> None,
     arguments |-> None, usage |-> NoUsage, item |-> NoItem, response |-> NoResponse]

ResponsesDoneLine == [ResponsesEvent("") EXCEPT !.kind = "done"]
ResponsesJunkLine == [ResponsesEvent("") EXCEPT !.kind = "junk"]

ReasoningEventTypes ==
    {"response.reasoning_text.delta", "response.reasoning_summary_text.delta",
     "response.reasoning.delta", "response.reasoning_summary.delta"}

ToolEventTypes ==
    {"response.output_item.added", "response.function_call_arguments.delta",
     "response.function_call_arguments.done"}

FirstSome(a, b) == IF IsSome(a) THEN a ELSE b

text_delta(event) == FirstSome(event.delta, FirstSome(event.text, event.item.text))

tool_kind(event) == event.item.type

call_id(event) == FirstSome(event.call_id, event.item.call_id)

item_id(event) == FirstSome(event.item_id, event.item.id)

tool_name(event) == FirstSome(event.name, event.item.name)

arguments_from_item(event) == event.item.arguments

event_output_index(event) ==
    IF event.output_index # NoIndex THEN event.output_index ELSE event.item.output_index

has_tool_event(event) ==
    /\ event.type \in ToolEventTypes
    /\ (IsSome(tool_kind(event)) \/ IsSome(call_id(event)))

map_responses_incomplete_reason(reason) ==
    CASE reason = <<"max_output_tokens">> -> STOP_MAX_TOKENS
      [] reason \in {<<"tool_use">>, <<"function_call">>} -> STOP_TOOL_USE
      [] OTHER -> STOP_END_TURN

\* payload = event.response, or the event itself when it has no "response"
CompletedPayload(event) ==
    IF event.response.present THEN event.response
    ELSE [NoResponse EXCEPT !.usage = event.usage]

resolve_completed_stop_reason(payload) ==
    IF payload.has_function_call THEN STOP_TOOL_USE
    ELSE IF payload.status = <<"incomplete">>
         THEN map_responses_incomplete_reason(payload.incomplete_reason)
         ELSE STOP_END_TURN

update_from_completed(st, event) ==
    LET payload == CompletedPayload(event)
    IN [st EXCEPT !.usage_data = IF payload.usage = NoUsage THEN ZeroUsage
                                 ELSE LatchUsage(payload.usage[1]),
                  !.final_stop_reason = resolve_completed_stop_reason(payload)]

\* responses_helpers.rs:119-138; returns the index and the context
resolve_tool_index(event, ctx) ==
    LET output_index == event_output_index(event)
        cid == call_id(event)
        iid == item_id(event)
    IN IF output_index # NoIndex
       THEN [index |-> output_index[1],
             ctx |-> IF output_index[1] + 1 > ctx.next_tool_index
                     THEN [ctx EXCEPT !.next_tool_index = output_index[1] + 1] ELSE ctx]
       ELSE IF IsSome(cid) /\ cid \in DOMAIN ctx.tool_index_by_call_id
       THEN [index |-> ctx.tool_index_by_call_id[cid], ctx |-> ctx]
       ELSE IF IsSome(iid) /\ iid \in DOMAIN ctx.tool_index_by_item_id
       THEN [index |-> ctx.tool_index_by_item_id[iid], ctx |-> ctx]
       ELSE [index |-> ctx.next_tool_index,
             ctx |-> [ctx EXCEPT !.next_tool_index = @ + 1]]

update_tool_maps(event, tool_index, ctx) ==
    LET with_call == IF IsSome(call_id(event))
                     THEN [ctx EXCEPT !.tool_index_by_call_id =
                                          MapInsert(@, call_id(event), tool_index)]
                     ELSE ctx
    IN IF IsSome(item_id(event))
       THEN [with_call EXCEPT !.tool_index_by_item_id =
                                  MapInsert(@, item_id(event), tool_index)]
       ELSE with_call

responses_update_tool_identity(st, event, tool_index) ==
    LET calls == EntryOrDefault(st.tool_calls, tool_index)
        with_id == IF IsSome(call_id(event))
                   THEN [calls EXCEPT ![tool_index].id = call_id(event)] ELSE calls
        with_name == IF IsSome(tool_name(event))
                     THEN [with_id EXCEPT ![tool_index].name = tool_name(event)]
                     ELSE with_id
    IN [st EXCEPT !.tool_calls = with_name]

\* responses_tools.rs:95-114
send_tool_json_if_complete(M, tool_index, delta) ==
    LET snapshot == snapshot_json_state(M.st, tool_index, delta)
        M1 == [M EXCEPT !.st = snapshot.st, !.ok = TRUE]
    IN IF snapshot.json_sent \/ ~snapshot.has_complete_json THEN M1
       ELSE IF snapshot.claude_index = NoIndex THEN M1
       ELSE LET M2 == send_tool_json_delta(M1, snapshot.claude_index[1],
                                           snapshot.payload_json)
            IN IF ~M2.ok THEN M2
               ELSE [M2 EXCEPT !.st.tool_calls[tool_index].json_sent = TRUE]

\* responses_tools.rs:116-136
send_tool_json_on_done(M, tool_index, arguments) ==
    IF tool_index \notin DOMAIN M.st.tool_calls THEN [M EXCEPT !.ok = TRUE]
    ELSE IF M.st.tool_calls[tool_index].json_sent THEN [M EXCEPT !.ok = TRUE]
    ELSE LET M1 == [M EXCEPT !.st.tool_calls[tool_index].args_buffer = arguments,
                             !.ok = TRUE]
             claude_index == M1.st.tool_calls[tool_index].claude_index
         IN IF claude_index = NoIndex THEN M1
            ELSE LET M2 == send_tool_json_delta(M1, claude_index[1], arguments)
                 IN IF ~M2.ok THEN M2
                    ELSE [M2 EXCEPT !.st.tool_calls[tool_index].json_sent = TRUE]

\* the first four steps shared by the three tool handlers of responses_tools.rs
ResolveAndStart(M, event) ==
    LET resolved == resolve_tool_index(event, M.ctx)
        ctx1 == update_tool_maps(event, resolved.index, resolved.ctx)
        st1 == responses_update_tool_identity(M.st, event, resolved.index)
    IN [tool_index |-> resolved.index,
        M |-> maybe_start_tool_block([M EXCEPT !.ctx = ctx1, !.st = st1], resolved.index)]

handle_output_item_added(M, event) ==
    LET started == ResolveAndStart(M, event)
    IN IF ~started.M.ok THEN started.M
       ELSE IF IsSome(arguments_from_item(event))
       THEN send_tool_json_if_complete(started.M, started.tool_index,
                                       arguments_from_item(event))
       ELSE started.M

handle_function_arguments_delta(M, event) ==
    LET started == ResolveAndStart(M, event)
    IN IF ~started.M.ok THEN started.M
       ELSE IF ~IsSome(event.delta) THEN started.M
       ELSE send_tool_json_if_complete(started.M, started.tool_index, event.delta)

handle_function_arguments_done(M, event) ==
    LET started == ResolveAndStart(M, event)
    IN IF ~started.M.ok THEN started.M
       ELSE IF ~IsSome(event.arguments) THEN started.M
       ELSE send_tool_json_on_done(started.M, started.tool_index, event.arguments)

\* pipeline_responses.rs:249-258
start_thinking_block(M) ==
    LET counter == M.st.tool_block_counter + 1
        claude_index == text_block_index + counter
    IN send_thinking_block_start(
           [M EXCEPT !.st.tool_block_counter = counter,
                     !.st.thinking_block_index = SomeIndex(claude_index),
                     !.st.thinking_started = TRUE],
           claude_index)

\* pipeline_responses.rs:188-205 with the delta sent ahead of the block start
handle_thinking_delta_before_start(M, event) ==
    IF ~IsSome(text_delta(event)) THEN [M EXCEPT !.ok = TRUE]
    ELSE IF M.st.thinking_started
    THEN (IF M.st.thinking_block_index = NoIndex THEN [M EXCEPT !.ok = TRUE]
          ELSE send_thinking_delta([M EXCEPT !.st.saw_thinking_delta = TRUE],
                                   M.st.thinking_block_index[1], text_delta(event)))
    ELSE LET M1 == send_thinking_delta(
                       [M EXCEPT !.st.saw_thinking_delta = TRUE],
                       text_block_index + M.st.tool_block_counter + 1, text_delta(event))
         IN IF ~M1.ok THEN M1 ELSE start_thinking_block(M1)

\* pipeline_responses.rs:188-205
handle_thinking_delta(M, event) ==
    IF ~IsSome(text_delta(event)) THEN [M EXCEPT !.ok = TRUE]
    ELSE LET M1 == IF ~M.st.thinking_started THEN start_thinking_block(M)
                   ELSE [M EXCEPT !.ok = TRUE]
         IN IF ~M1.ok THEN M1
            ELSE IF M1.st.thinking_block_index = NoIndex THEN M1
            ELSE send_thinking_delta([M1 EXCEPT !.st.saw_thinking_delta = TRUE],
                                     M1.st.thinking_block_index[1], text_delta(event))

\* pipeline_responses.rs:207-247 with the fallback tied to the completion only
maybe_start_thinking_fallback_late(M, event) ==
    IF ~M.st.thinking_requested \/ M.st.thinking_started \/ M.st.saw_thinking_delta
    THEN M
    ELSE IF event.type \in ReasoningEventTypes THEN M
    ELSE IF ~(event.type = "response.completed") THEN M
    ELSE start_thinking_block(M)

\* pipeline_responses.rs:207-247
maybe_start_thinking_fallback(M, event) ==
    IF ~M.st.thinking_requested \/ M.st.thinking_started \/ M.st.saw_thinking_delta
    THEN M
    ELSE IF event.type \in ReasoningEventTypes THEN M
    ELSE LET has_content == IsSome(text_delta(event))
             has_tools == has_tool_event(event)
             has_finish == event.type = "response.completed"
         IN IF ~(has_content \/ has_tools \/ has_finish) THEN M
            ELSE start_thinking_block(M)

\* pipeline_responses.rs:135-186; returns the machine and should_stop
handle_event(M, event) ==
    LET M1 == maybe_start_thinking_fallback(M, event)
    IN CASE event.type \in {"response.output_text.delta", "response.refusal.delta"} ->
               [M |-> IF IsSome(text_delta(event)) THEN send_text_delta(M1, text_delta(event))
                      ELSE M1,
                should_stop |-> FALSE]
         [] event.type \in ReasoningEventTypes ->
               [M |-> handle_thinking_delta(M1, event), should_stop |-> FALSE]
         [] event.type = "response.output_item.added" ->
               [M |-> IF tool_kind(event) = <<"function_call">>
                      THEN handle_output_item_added(M1, event) ELSE M1,
                should_stop |-> FALSE]
         [] event.type = "response.function_call_arguments.delta" ->
               [M |-> handle_function_arguments_delta(M1, event), should_stop |-> FALSE]
         [] event.type = "response.function_call_arguments.done" ->
               [M |-> handle_function_arguments_done(M1, event), should_stop |-> FALSE]
         [] event.type = "response.completed" ->
               [M |-> [M1 EXCEPT !.st = update_from_completed(M1.st, event)],
                should_stop |-> TRUE]
         [] event.type \in {"response.failed", "error"} ->
               [M |-> send_error_sse(M1), should_stop |-> TRUE]
         [] OTHER -> [M |-> M1, should_stop |-> FALSE]

\* pipeline_responses.rs:98-133; returns the machine and should_stop
RECURSIVE process_lines(_)
process_lines(M) ==
    IF M.buf = <<>> THEN [M |-> M, should_stop |-> FALSE]
    ELSE LET line == Head(M.buf)
             M1 == [M EXCEPT !.buf = Tail(@), !.log = Append(@, line)]
         IN CASE line.kind = "junk" -> process_lines(M1)
              [] line.kind = "done" -> [M |-> M1, should_stop |-> TRUE]
              [] OTHER ->
                    LET handled == handle_event(M1, line)
                    IN IF handled.should_stop THEN handled ELSE process_lines(handled.M)

(***************************************************************************)
(* Upstream inputs of the stream task                                      *)
(***************************************************************************)
UsageOne == [input |-> 1, output |-> 2, cached |-> 0]
UsageTwo == [input |-> 3, output |-> 1, cached |-> 1]

ArgOpen == <<"[">>
ArgClose == <<"]">>
ArgNumber == <<"1">>
ItemOne == <<"i">>

ChatLines ==
    {[ChatChunk EXCEPT !.content = SomeText],
     [ChatChunk EXCEPT !.tool_calls = <<ToolCallDelta(SomeIndex(0), IdA, NameF, None)>>],
     [ChatChunk EXCEPT !.tool_calls = <<ToolCallDelta(NoIndex, IdA, None, None)>>],
     [ChatChunk EXCEPT !.tool_calls = <<ToolCallDelta(SomeIndex(0), None, NameF, None)>>],
     [ChatChunk EXCEPT !.tool_calls = <<ToolCallDelta(SomeIndex(0), None, None, ArgOpen)>>],
     [ChatChunk EXCEPT !.tool_calls = <<ToolCallDelta(SomeIndex(0), None, None, ArgClose)>>],
     [ChatChunk EXCEPT !.tool_calls = <<ToolCallDelta(SomeIndex(0), None, None, ArgNumber)>>],
     [ChatChunk EXCEPT !.tool_calls = <<ToolCallDelta(SomeIndex(1), IdB, NameF, ArgNumber)>>],
     [ChatChunk EXCEPT !.tool_calls = <<ToolCallDelta(SomeIndex(1), IdBlank, NameF, None)>>],
     [ChatChunk EXCEPT !.content = SomeText,
                       !.tool_calls = <<ToolCallDelta(SomeIndex(0), IdA, NameF, ArgNumber)>>,
                       !.finish_reason = <<"tool_calls">>],
     [ChatChunk EXCEPT !.usage = <<UsageOne>>, !.has_choice = FALSE],
     [ChatChunk EXCEPT !.usage = <<UsageTwo>>, !.finish_reason = <<"stop">>],
     [ChatChunk EXCEPT !.finish_reason = <<"length">>],
     DoneLine,
     JunkLine}

FunctionCallItemOf(cid, iid, name, arguments) ==
    [NoItem EXCEPT !.present = TRUE, !.type = <<"function_call">>, !.call_id = cid,
                   !.id = iid, !.name = name, !.arguments = arguments]

ResponsesLines ==
    {[ResponsesEvent("response.output_text.delta") EXCEPT !.delta = SomeText],
     [ResponsesEvent("response.reasoning_text.delta") EXCEPT !.delta = SomeText],
     [ResponsesEvent("response.output_item.added") EXCEPT
         !.output_index = SomeIndex(0),
         !.item = FunctionCallItemOf(IdA, ItemOne, NameF, None)],
     [ResponsesEvent("response.output_item.added") EXCEPT
         !.item = FunctionCallItemOf(IdA, None, NameF, ArgNumber)],
     [ResponsesEvent("response.output_item.added") EXCEPT
         !.output_index = SomeIndex(1),
         !.item = FunctionCallItemOf(IdB, None, NameF, None)],
     [ResponsesEvent("response.output_item.added") EXCEPT
         !.output_index = SomeIndex(0),
         !.item = [NoItem EXCEPT !.present = TRUE, !.type = <<"message">>]],
     [ResponsesEvent("response.function_call_arguments.delta") EXCEPT
         !.output_index = SomeIndex(0), !.item_id = ItemOne, !.delta = ArgOpen],
     [ResponsesEvent("response.function_call_arguments.delta") EXCEPT
         !.item_id = ItemOne, !.delta = ArgClose],
     [ResponsesEvent("response.function_call_arguments.delta") EXCEPT
         !.call_id = IdA, !.delta = ArgNumber],
     [ResponsesEvent("response.function_call_arguments.done") EXCEPT
         !.output_index = SomeIndex(0), !.item_id = ItemOne,
         !.arguments = ArgOpen \o ArgClose],
     [ResponsesEvent("response.function_call_arguments.done") EXCEPT
         !.call_id = IdA, !.name = NameF, !.arguments = ArgOpen],
     [ResponsesEvent("response.completed") EXCEPT
         !.response = [NoResponse EXCEPT !.present = TRUE, !.usage = <<UsageOne>>]],
     [ResponsesEvent("response.completed") EXCEPT
         !.response = [NoResponse EXCEPT !.present = TRUE, !.usage = <<UsageTwo>>,
                                         !.has_function_call = TRUE]],
     ResponsesEvent("response.failed"),
     ResponsesEvent("response.created"),
     ResponsesDoneLine,
     ResponsesJunkLine}

\* a body chunk: complete lines, possibly followed by an unterminated
\* "data: [DONE]" whose newline has not arrived yet
ChunksOf(lines) ==
    {[lines |-> l, tail_done |-> FALSE] : l \in [1..1 -> lines] \cup [1..2 -> lines]}
    \cup {[lines |-> l, tail_done |-> TRUE] : l \in {<<>>} \cup [1..1 -> lines]}

ChunkSize(chunk) == Len(chunk.lines) + (IF chunk.tail_done THEN 1 ELSE 0)

\* frames the writer accepts before the client disconnects
WriterCaps == {2, 4, Unlimited}

(***************************************************************************)
(* The stream task (pipeline.rs:17-56, pipeline_responses.rs:20-69)        *)
(***************************************************************************)
Machine ==
    [st |-> state, ctx |-> context, buf |-> line_buffer, log |-> processed,
     frames |-> frames, fails |-> failed_sends, cap |-> writer_cap, ok |-> TRUE]

Commit(M, next_pc) ==
    /\ state' = M.st
    /\ context' = M.ctx
    /\ line_buffer' = M.buf
    /\ processed' = M.log
    /\ frames' = M.frames
    /\ failed_sends' = M.fails
    /\ pc' = next_pc

HandlerIdle ==
    /\ http_request = <<>>
    /\ anthropic_api_key = <<>>
    /\ http_response = 0
    /\ handler_pc = "idle"
    /\ upstream_sent = 0

CallIdle ==
    /\ HandlerIdle
    /\ claude_request = <<>>
    /\ bridge_config = <<>>
    /\ openai_request = <<>>
    /\ upstream_reply = <<>>
    /\ upstream_result = <<>>
    /\ call_pc = "idle"

SessionIdle ==
    /\ manager = <<>>
    /\ store = <<>>
    /\ clock = 0
    /\ next_uuid = 0
    /\ session_log = <<>>
    /\ last_call = <<>>
    /\ session_steps = 0
    /\ tasks = <<>>
    /\ lock = <<>>

ConvIdle ==
    /\ claude_messages = <<>>
    /\ openai_messages = <<>>
    /\ responses_input = <<>>
    /\ conv_pc = "idle"

InitStream ==
    /\ ConvIdle
    /\ SessionIdle
    /\ CallIdle
    /\ wire \in {"chat", "responses"}
    /\ pc = "start"
    /\ line_buffer = <<>>
    /\ tail_done = FALSE
    /\ \E thinking_requested \in BOOLEAN :
           /\ wire = "chat" => ~thinking_requested
           /\ state = NewStreamState(thinking_requested)
    /\ context = NewResponsesStreamContext
    /\ frames = <<>>
    /\ failed_sends = 0
    /\ writer_cap \in WriterCaps
    /\ processed = <<>>
    /\ lines_read = 0

\* send_start_sequence; a failed send ends the task
StartStream ==
    /\ pc = "start"
    /\ LET M == send_start_sequence(Machine)
       IN Commit(M, IF M.ok THEN "reading" ELSE "done")
    /\ UNCHANGED <<wire, tail_done, writer_cap, lines_read>>
    /\ UNCHANGED conv_vars
    /\ UNCHANGED session_vars
    /\ UNCHANGED call_vars

\* pipeline.rs:47-55: what follows process_complete_lines in the loop body
AfterChatChunk(M, tail) ==
    IF BufferContainsDone(M.buf, tail)
    THEN [M |-> send_stop_sequence(M), next_pc |-> "done"]
    ELSE [M |-> M, next_pc |-> "reading"]

\* one iteration of the Chat read loop on a successfully read chunk
ChatReadChunk ==
    /\ wire = "chat"
    /\ pc = "reading"
    /\ \E chunk \in ChunksOf(ChatLines) :
           /\ lines_read + ChunkSize(chunk) <= MaxLines
           /\ LET M == process_complete_lines(
                           [Machine EXCEPT !.buf = @ \o chunk.lines])
                  after == AfterChatChunk(M, chunk.tail_done)
              IN Commit(after.M, after.next_pc)
           /\ tail_done' = chunk.tail_done
           /\ lines_read' = lines_read + ChunkSize(chunk)
    /\ UNCHANGED <<wire, writer_cap>>
    /\ UNCHANGED conv_vars
    /\ UNCHANGED session_vars
    /\ UNCHANGED call_vars

\* one iteration of the Responses read loop on a successfully read chunk; a
\* pending unterminated "data: [DONE]" is completed by the chunk's newline
ResponsesReadChunk ==
    /\ wire = "responses"
    /\ pc = "reading"
    /\ \E chunk \in ChunksOf(ResponsesLines) :
           /\ lines_read + ChunkSize(chunk) <= MaxLines
           /\ LET pending == IF tail_done THEN <<ResponsesDoneLine>> ELSE <<>>
                  result == process_lines(
                                [Machine EXCEPT !.buf = @ \o pending \o chunk.lines])
              IN IF result.should_stop
                 THEN Commit(send_stop_sequence(result.M), "done")
                 ELSE Commit(result.M, "reading")
           /\ tail_done' = chunk.tail_done
           /\ lines_read' = lines_read + ChunkSize(chunk)
    /\ UNCHANGED <<wire, writer_cap>>
    /\ UNCHANGED conv_vars
    /\ UNCHANGED session_vars
    /\ UNCHANGED call_vars

\* the upstream body ends: the loop is left and the stop sequence sent
UpstreamEnd ==
    /\ pc = "reading"
    /\ Commit(send_stop_sequence(Machine), "done")
    /\ UNCHANGED <<wire, tail_done, writer_cap, lines_read>>
    /\ UNCHANGED conv_vars
    /\ UNCHANGED session_vars
    /\ UNCHANGED call_vars

\* pipeline.rs:35-45 with the early return lost
AfterReadErrorFallThrough(M) == send_stop_sequence(send_error_sse(M))

\* pipeline.rs:35-45, pipeline_responses.rs:40-50: the error frame, then return
AfterReadError(M) == send_error_sse(M)

\* reading the next body chunk fails
UpstreamReadError ==
    /\ pc = "reading"
    /\ Commit(AfterReadError(Machine), "aborted")
    /\ UNCHANGED <<wire, tail_done, writer_cap, lines_read>>
    /\ UNCHANGED conv_vars
    /\ UNCHANGED session_vars
    /\ UNCHANGED call_vars

NextStream ==
    \/ StartStream
    \/ ChatReadChunk
    \/ ResponsesReadChunk
    \/ UpstreamEnd
    \/ UpstreamReadError

SpecStream == InitStream /\ [][NextStream]_vars

(***************************************************************************)
(* Frame predicates used by the stream properties                          *)
(***************************************************************************)
IsBlockStart(f) == f.ev = "content_block_start"
IsBlockDelta(f) == f.ev = "content_block_delta"
IsBlockStop(f) == f.ev = "content_block_stop"

FramePositions(P(_)) == {k \in DOMAIN frames : P(frames[k])}

StartedIndices == {frames[k].index : k \in FramePositions(IsBlockStart)}

StopsOf(index) == {k \in FramePositions(IsBlockStop) : frames[k].index = index}

IsJsonDelta(f) == IsBlockDelta(f) /\ f.kind = "input_json_delta"
IsTextDelta(f) == IsBlockDelta(f) /\ f.kind = "text_delta"
IsThinkingStart(f) == IsBlockStart(f) /\ f.kind = "thinking"
IsToolStart(f) == IsBlockStart(f) /\ f.kind = "tool_use"
IsErrorFrame(f) == f.ev = "error"
IsMessageStop(f) == f.ev = "message_stop"
IsMessageDelta(f) == f.ev = "message_delta"

StartedSlots == {k \in DOMAIN state.tool_calls : state.tool_calls[k].started}

(***************************************************************************)
(* C2  Block ordering                                                      *)
(***************************************************************************)
\* C2: for every block index i, no content_block_delta(i) is emitted before
\* content_block_start(i) or after content_block_stop(i).
C2_BlockOrdering ==
    \A k \in FramePositions(IsBlockDelta) :
        /\ \E j \in 1..(k - 1) :
               IsBlockStart(frames[j]) /\ frames[j].index = frames[k].index
        /\ \A j \in 1..(k - 1) :
               ~(IsBlockStop(frames[j]) /\ frames[j].index = frames[k].index)

\* a finished stream that carried a thinking delta, a tool JSON delta and text
C2_Witness ==
    /\ pc = "done"
    /\ \E k \in DOMAIN frames : IsMessageStop(frames[k])
    /\ \E k \in DOMAIN frames : IsJsonDelta(frames[k])
    /\ \E k \in DOMAIN frames : IsTextDelta(frames[k])
    /\ \E k \in DOMAIN frames : IsBlockDelta(frames[k]) /\ frames[k].kind = "thinking_delta"

(***************************************************************************)
(* C3  Every started block is stopped                                      *)
(***************************************************************************)
\* C3: when message_stop is emitted, every block that got a content_block_start
\* (text block 0, started tool_use blocks, a started thinking block) has exactly
\* one content_block_stop.
C3_EveryStartedBlockStopped ==
    (\E k \in DOMAIN frames : IsMessageStop(frames[k])) =>
        \A index \in StartedIndices : Cardinality(StopsOf(index)) = 1

(***************************************************************************)
(* C4  At-most-once JSON                                                   *)
(***************************************************************************)
\* C4: for each tool block at most one input_json_delta is emitted, and its
\* payload (the slot's buffered arguments) is one complete JSON value.
C4_JsonOnceAndComplete ==
    \A k \in FramePositions(IsJsonDelta) :
        /\ IsCompleteJson(frames[k].text)
        /\ \A j \in FramePositions(IsJsonDelta) :
               frames[j].index = frames[k].index => j = k

(***************************************************************************)
(* C5  Contiguous block indices                                            *)
(***************************************************************************)
ThinkingIndices ==
    IF state.thinking_started
    THEN {state.thinking_block_index[i] : i \in DOMAIN state.thinking_block_index}
    ELSE {}

ToolIndices ==
    UNION {{state.tool_calls[k].claude_index[i] : i \in DOMAIN state.tool_calls[k].claude_index} :
              k \in StartedSlots}

\* C5: the indices of the started tool_use blocks and of the thinking block are
\* pairwise distinct and are exactly 1..tool_block_counter; index 0 is never
\* assigned and no block is started twice.
C5_ContiguousIndices ==
    pc \in {"start", "reading", "done", "aborted"} =>
        /\ \A k \in StartedSlots : state.tool_calls[k].claude_index # NoIndex
        /\ state.thinking_started => state.thinking_block_index # NoIndex
        /\ \A k1, k2 \in StartedSlots :
               state.tool_calls[k1].claude_index = state.tool_calls[k2].claude_index
                   => k1 = k2
        /\ ThinkingIndices \cap ToolIndices = {}
        /\ ThinkingIndices \cup ToolIndices = 1..state.tool_block_counter
        /\ \A j, k \in FramePositions(IsBlockStart) :
               frames[j].index = frames[k].index => j = k

\* two tool blocks and the thinking block are open
C5_Witness ==
    /\ state.tool_block_counter = 3
    /\ Cardinality(StartedSlots) = 2
    /\ state.thinking_started
    /\ Cardinality(FramePositions(IsBlockStart)) = 4

(***************************************************************************)
(* C6  Frame envelope                                                      *)
(***************************************************************************)
\* the indices of the non-text blocks that were started
RECURSIVE OtherStartedBlocks(_)
OtherStartedBlocks(k) ==
    IF k > Len(frames) THEN <<>>
    ELSE (IF IsBlockStart(frames[k]) /\ frames[k].index # SomeIndex(0)
          THEN <<frames[k].index>> ELSE <<>>) \o OtherStartedBlocks(k + 1)

\* C6: a stream that ends without a read error and with a working writer
\* starts message_start, content_block_start(0, text), ping and ends
\* content_block_stop(0), the stops of the other started blocks, message_delta,
\* message_stop; message_start and message_stop occur once, message_stop last.
C6_FrameEnvelope ==
    (pc = "done" /\ failed_sends = 0) =>
        LET n == Len(frames)
            others == OtherStartedBlocks(1)
            m == Len(others)
        IN /\ n >= 6 + m
           /\ frames[1].ev = "message_start"
           /\ IsBlockStart(frames[2]) /\ frames[2].index = SomeIndex(0)
           /\ frames[2].kind = "text" /\ frames[2].text = <<>>
           /\ frames[3].ev = "ping"
           /\ IsBlockStop(frames[n - 2 - m]) /\ frames[n - 2 - m].index = SomeIndex(0)
           /\ \A i \in 1..m : IsBlockStop(frames[n - 2 - m + i])
           /\ \A i \in 1..m : \E j \in 1..m : frames[n - 2 - m + j].index = others[i]
           /\ IsMessageDelta(frames[n - 1])
           /\ IsMessageStop(frames[n])
           /\ Cardinality({k \in DOMAIN frames : frames[k].ev = "message_start"}) = 1
           /\ Cardinality(FramePositions(IsMessageStop)) = 1

(***************************************************************************)
(* C7  Cancellation                                                        *)
(***************************************************************************)
\* C7: once a frame send has failed, the stream task attempts no further send.
C7_NoSendAfterFailure == failed_sends <= 1

(***************************************************************************)
(* C8  Upstream read error                                                 *)
(***************************************************************************)
\* C8: after a failed body read the pipeline has emitted exactly one error
\* frame (api_error), as its last frame, no content_block_stop, message_delta
\* or message_stop, and it processes nothing further.
C8_ReadErrorEndsStream ==
    pc = "aborted" =>
        /\ failed_sends = 0 =>
               /\ Cardinality(FramePositions(IsErrorFrame)) = 1
               /\ IsErrorFrame(frames[Len(frames)])
               /\ frames[Len(frames)].kind = "api_error"
        /\ \A k \in DOMAIN frames :
               ~(IsBlockStop(frames[k]) \/ IsMessageDelta(frames[k]) \/ IsMessageStop(frames[k]))
        /\ ~ENABLED NextStream

\* a read error after a tool block was opened, with the client still connected
C8_Witness ==
    /\ pc = "aborted"
    /\ failed_sends = 0
    /\ IsErrorFrame(frames[Len(frames)])
    /\ \E k \in DOMAIN frames : IsToolStart(frames[k])
    /\ Len(processed) >= 2

(***************************************************************************)
(* C9  Usage latch                                                         *)
(***************************************************************************)
\* the usage object a consumed line carries where the pipeline reads it
UsageObserved(line) ==
    IF line.kind # "json" THEN NoUsage
    ELSE IF wire = "chat" THEN line.usage
    ELSE IF line.type = "response.completed"
         THEN (IF line.response.present THEN line.response.usage ELSE line.usage)
         ELSE NoUsage

RECURSIVE LastUsageObserved(_, _)
LastUsageObserved(log, k) ==
    IF k = 0 THEN ZeroUsage
    ELSE IF UsageObserved(log[k]) # NoUsage
         THEN [input_tokens |-> UsageObserved(log[k])[1].input,
               output_tokens |-> UsageObserved(log[k])[1].output,
               cache_read_input_tokens |-> UsageObserved(log[k])[1].cached]
         ELSE LastUsageObserved(log, k - 1)

\* C9: the usage of message_delta is the last usage object observed from the
\* upstream (zero usage if none), never a sum over several chunks.
C9_UsageLatch ==
    \A k \in FramePositions(IsMessageDelta) :
        frames[k].usage = LastUsageObserved(processed, Len(processed))

\* two usage objects were observed and message_delta carries the second
C9_Witness ==
    /\ pc = "done"
    /\ Cardinality({k \in DOMAIN processed : UsageObserved(processed[k]) # NoUsage}) >= 2
    /\ \E k \in FramePositions(IsMessageDelta) :
           /\ frames[k].usage.input_tokens = UsageTwo.input
           /\ frames[k].usage.output_tokens = UsageTwo.output

(***************************************************************************)
(* C10  Thinking fallback                                                  *)
(***************************************************************************)
ReasoningDeltaArrived ==
    \E k \in DOMAIN processed :
        /\ processed[k].kind = "json"
        /\ processed[k].type \in ReasoningEventTypes
        /\ IsSome(text_delta(processed[k]))

\* C10: in a Responses stream with thinking requested, a thinking
\* content_block_start precedes the first text_delta and the first tool_use
\* content_block_start; without thinking requested and without a reasoning
\* delta no thinking block is started.
C10_ThinkingFallback ==
    wire = "responses" =>
        /\ state.thinking_requested =>
               \A k \in DOMAIN frames :
                   (IsTextDelta(frames[k]) \/ IsToolStart(frames[k])) =>
                       \E j \in 1..(k - 1) : IsThinkingStart(frames[j])
        /\ (~state.thinking_requested /\ ~ReasoningDeltaArrived) =>
               /\ ~state.thinking_started
               /\ \A k \in DOMAIN frames : ~IsThinkingStart(frames[k])

\* thinking requested, no reasoning delta: the fallback block opened ahead of
\* the text delta and the tool block
C10_Witness ==
    /\ wire = "responses"
    /\ state.thinking_requested
    /\ ~ReasoningDeltaArrived
    /\ \E j, k, l \in DOMAIN frames :
           /\ IsThinkingStart(frames[j])
           /\ IsTextDelta(frames[k])
           /\ IsToolStart(frames[l])
           /\ j < k /\ j < l

(***************************************************************************)
(* C11  No interleaving                                                    *)
(***************************************************************************)
LastFrameOf(index) ==
    CHOOSE k \in DOMAIN frames :
        /\ frames[k].index = index
        /\ \A j \in DOMAIN frames : frames[j].index = index => j <= k

\* C11: between the content_block_start of block i and the last frame of
\* block i, no frame carrying another block index is emitted.
C11_NoInterleaving ==
    \A s \in FramePositions(IsBlockStart) :
        \A k \in s..LastFrameOf(frames[s].index) :
            frames[k].index # NoIndex => frames[k].index = frames[s].index

(***************************************************************************)
(* C17                                                                     *)
(***************************************************************************)
\* C17: all events of one Responses stream that carry the same call_id
\* resolve to the same tool slot, whatever output_index, call_id and item id
\* each event carries.  Every slot an event with a call_id resolved to holds
\* that call_id until another call_id replaces it, and the call_id map holds
\* the slot of the latest such event, so every slot must be the one its
\* call_id maps to.
C17_StableToolSlot ==
    wire = "responses" =>
        \A tool_index \in DOMAIN state.tool_calls :
            LET id == state.tool_calls[tool_index].id
            IN IsSome(id) =>
                   /\ id \in DOMAIN context.tool_index_by_call_id
                   /\ context.tool_index_by_call_id[id] = tool_index

(***************************************************************************)
(* C13  No empty tool ids are forwarded                                    *)
(***************************************************************************)
IsUsableId(id) == IsSome(id) /\ Trim(id) # <<>>

\* C13: every assistant tool_call and tool message sent upstream and every
\* tool_use block delivered to the client as a streamed content_block_start
\* carries an id that is non-empty after trimming.
C13_NoEmptyToolIds ==
    /\ \A k \in DOMAIN openai_messages :
           /\ openai_messages[k].role = ROLE_TOOL =>
                  IsUsableId(openai_messages[k].tool_call_id)
           /\ openai_messages[k].role = ROLE_ASSISTANT =>
                  \A c \in DOMAIN openai_messages[k].tool_calls :
                      IsUsableId(openai_messages[k].tool_calls[c].id)
    /\ \A k \in DOMAIN responses_input :
           responses_input[k].type \in {"function_call", "function_call_output"} =>
               IsUsableId(responses_input[k].call_id)
    /\ \A k \in FramePositions(IsToolStart) : IsUsableId(frames[k].text)

(***************************************************************************)
(* C22  Responses stream failure                                           *)
(***************************************************************************)
IsFailureEvent(line) ==
    /\ line.kind = "json"
    /\ line.type \in {"response.failed", "error"}

\* C22: when the upstream sends a response.failed or error event, the
\* pipeline emits a Claude error frame, processes no later upstream event,
\* and the error frame is the last frame of the stream.
C22_FailureEndsStream ==
    wire = "responses" =>
        \A i \in DOMAIN processed :
            IsFailureEvent(processed[i]) =>
                /\ i = Len(processed)
                /\ (failed_sends = 0 =>
                        /\ frames # <<>>
                        /\ IsErrorFrame(frames[Len(frames)]))

(***************************************************************************)
(* C23  Chat argument accumulation                                         *)
(***************************************************************************)
RECURSIVE FragmentsOfDeltas(_, _)
FragmentsOfDeltas(tool_call_deltas, tool_index) ==
    IF tool_call_deltas = <<>> THEN <<>>
    ELSE LET delta == Head(tool_call_deltas)
             fragment == IF tool_call_index(delta) = tool_index /\ IsSome(delta.arguments)
                         THEN delta.arguments ELSE <<>>
         IN fragment \o FragmentsOfDeltas(Tail(tool_call_deltas), tool_index)

\* the function.arguments fragments received for a slot, in arrival order
RECURSIVE FragmentsReceived(_, _)
FragmentsReceived(lines, tool_index) ==
    IF lines = <<>> THEN <<>>
    ELSE LET line == Head(lines)
             here == IF line.kind = "json" /\ line.has_choice
                     THEN FragmentsOfDeltas(line.tool_calls, tool_index) ELSE <<>>
         IN here \o FragmentsReceived(Tail(lines), tool_index)

\* C23: every function.arguments fragment received for a tool slot is
\* appended to the slot's args_buffer in arrival order, also when it arrives
\* before the slot has both id and name, so that the payload of the slot's
\* input_json_delta is the concatenation of all fragments received so far.
\* (Stated while every send has succeeded: a failed send ends the task in
\* the middle of a line.)
C23_ArgumentsAccumulate ==
    (wire = "chat" /\ failed_sends = 0) =>
        \A tool_index \in DOMAIN state.tool_calls :
            state.tool_calls[tool_index].args_buffer
                = FragmentsReceived(processed, tool_index)

(***************************************************************************)
(* C24  Stop order                                                         *)
(***************************************************************************)
IsNonTextStop(f) == IsBlockStop(f) /\ f.index # SomeIndex(text_block_index)

\* C24: in the stop sequence the content_block_stop frames of the non-text
\* blocks come in the order in which those blocks were started (ascending
\* Claude block index), also when upstream tool indices arrive or complete
\* their id and name out of numeric order.
C24_StopOrder ==
    \A i \in FramePositions(IsNonTextStop) : \A j \in FramePositions(IsNonTextStop) :
        i < j => frames[i].index[1] < frames[j].index[1]

(***************************************************************************)
(* C27  [DONE] terminates the Chat stream                                  *)
(***************************************************************************)
DoneConsumed == \E i \in DOMAIN processed : processed[i].kind = "done"

StopSequenceEvents == {"content_block_stop", "message_delta", "message_stop"}

\* C27: once the Chat pipeline has consumed a complete data: [DONE] line, no
\* upstream line received after it produces a frame or changes the latched
\* stop reason, usage or tool state; the only frames emitted afterwards are
\* those of the stop sequence.
C27_DoneTerminatesChat ==
    [][ (wire = "chat" /\ DoneConsumed) =>
            /\ state' = state
            /\ \A k \in (Len(frames) + 1)..Len(frames') :
                   frames'[k].ev \in StopSequenceEvents ]_vars

(***************************************************************************)
(* C28  Distinct Responses calls use distinct slots                        *)
(***************************************************************************)
\* C28: events of two different function calls (different call_id) never
\* resolve to the same tool slot, so the id and name of a slot are never
\* overwritten by another call, for any mix of events with and without
\* output_index.  tool_index_by_call_id holds, for every call_id seen, the
\* slot its latest event resolved to: no two call_ids may share a slot.
C28_DistinctCallsDistinctSlots ==
    wire = "responses" =>
        \A first \in DOMAIN context.tool_index_by_call_id :
            \A second \in DOMAIN context.tool_index_by_call_id :
                first # second =>
                    context.tool_index_by_call_id[first]
                        # context.tool_index_by_call_id[second]

(***************************************************************************)
(* Request conversion as a state machine: the input is drawn in Init,      *)
(* convert_claude_to_openai produces the Chat messages, and                *)
(* convert_chat_request_to_responses the Responses input.                  *)
(***************************************************************************)

AssistantMessages ==
    {ClaudeMessage(ROLE_ASSISTANT, BlocksContent(<<ToolUseBlock(id, NameF)>>)) :
         id \in {IdA, IdB, IdAPadded, IdBlank, None}}
    \cup {ClaudeMessage(ROLE_ASSISTANT, BlocksContent(<<ToolUseBlock(IdA, None)>>)),
          ClaudeMessage(ROLE_ASSISTANT,
                        BlocksContent(<<TextBlock(SomeText), ToolUseBlock(IdA, NameF),
                                        ToolUseBlock(IdB, NameF)>>)),
          ClaudeMessage(ROLE_ASSISTANT, TextContent(SomeText)),
          ClaudeMessage(ROLE_ASSISTANT, NoContent)}

UserMessages ==
    {ClaudeMessage(ROLE_USER, BlocksContent(<<ToolResultBlock(id)>>)) :
         id \in {IdA, IdB, IdAPaddedEnd, IdBlank, None}}
    \cup {ClaudeMessage(ROLE_USER, BlocksContent(<<ToolResultBlock(id), TextBlock(SomeText)>>)) :
              id \in {IdA, IdBlank}}
    \cup {ClaudeMessage(ROLE_USER,
                        BlocksContent(<<ToolResultBlock(IdB), ToolResultBlock(IdA)>>)),
          ClaudeMessage(ROLE_USER,
                        BlocksContent(<<ToolResultBlock(IdA), ToolResultBlock(IdB),
                                        TextBlock(SomeText)>>)),
          ClaudeMessage(ROLE_USER,
                        BlocksContent(<<TextBlock(SomeText), ToolResultBlock(None)>>)),
          ClaudeMessage(ROLE_USER, BlocksContent(<<UnknownBlock>>)),
          ClaudeMessage(ROLE_USER, TextContent(SomeText)),
          ClaudeMessage(ROLE_USER, OtherContent)}

OtherRoleMessages == {ClaudeMessage(ROLE_SYSTEM, TextContent(SomeText))}

ClaudeMessages == AssistantMessages \cup UserMessages \cup OtherRoleMessages

MessageLists == UNION {[1..n -> ClaudeMessages] : n \in 1..MaxMessages}

StreamIdle ==
    /\ wire = "idle"
    /\ pc = "idle"
    /\ line_buffer = <<>>
    /\ tail_done = FALSE
    /\ state = <<>>
    /\ context = <<>>
    /\ frames = <<>>
    /\ failed_sends = 0
    /\ writer_cap = 0
    /\ processed = <<>>
    /\ lines_read = 0

InitConv ==
    /\ claude_messages \in MessageLists
    /\ openai_messages = <<>>
    /\ responses_input = <<>>
    /\ conv_pc = "request"
    /\ StreamIdle
    /\ SessionIdle
    /\ CallIdle

\* convert_claude_to_openai (handlers.rs:235, handlers.rs:281 through convert_claude_to_responses)
ConvertClaudeToOpenai ==
    /\ conv_pc = "request"
    /\ openai_messages' = convert_message_list(claude_messages)
    /\ conv_pc' = "chat"
    /\ UNCHANGED <<claude_messages, responses_input>>
    /\ UNCHANGED stream_vars
    /\ UNCHANGED session_vars
    /\ UNCHANGED call_vars

\* convert_claude_to_responses: the Chat request rewritten into the Responses input
ConvertClaudeToResponses ==
    /\ conv_pc = "chat"
    /\ responses_input' = convert_chat_request_to_responses(openai_messages)
    /\ conv_pc' = "responses"
    /\ UNCHANGED <<claude_messages, openai_messages>>
    /\ UNCHANGED stream_vars
    /\ UNCHANGED session_vars
    /\ UNCHANGED call_vars

NextConv == ConvertClaudeToOpenai \/ ConvertClaudeToResponses

SpecConv == InitConv /\ [][NextConv]_vars

(***************************************************************************)
(* C1  Tool-id closure                                                     *)
(***************************************************************************)
AssistantCallsBefore(messages, k) ==
    {messages[j].tool_calls[c].id :
        <<j, c>> \in {<<j, c>> \in (1..(k - 1)) \X (1..3) :
                        /\ messages[j].role = ROLE_ASSISTANT
                        /\ c \in DOMAIN messages[j].tool_calls}}

FunctionCallsBefore(input, k) ==
    {input[j].call_id : j \in {j \in 1..(k - 1) : input[j].type = "function_call"}}

\* the input holds a tool_result with a usable id that has no earlier tool_use
HasOrphanToolResult(messages) ==
    \E i \in DOMAIN messages :
        /\ messages[i].role = ROLE_USER
        /\ \E b \in DOMAIN messages[i].content.blocks :
              LET block == messages[i].content.blocks[b]
              IN /\ block.type = "tool_result"
                 /\ IsSome(block.id)
                 /\ Trim(block.id) # <<>>
                 /\ \A j \in 1..(i - 1) :
                        \A c \in DOMAIN messages[j].content.blocks :
                            ~ /\ messages[j].role = ROLE_ASSISTANT
                              /\ messages[j].content.blocks[c].type = "tool_use"
                              /\ IsSome(messages[j].content.blocks[c].id)
                              /\ Trim(messages[j].content.blocks[c].id) = Trim(block.id)

\* C1: every emitted tool message (function_call_output) is preceded by an
\* assistant message whose tool_call (function_call) carries the same trimmed
\* id, whatever the input message sequence.
C1_ToolIdClosure ==
    /\ \A k \in DOMAIN openai_messages :
           openai_messages[k].role = ROLE_TOOL =>
               Trim(openai_messages[k].tool_call_id) \in
                   {Trim(id) : id \in AssistantCallsBefore(openai_messages, k)}
    /\ \A k \in DOMAIN responses_input :
           responses_input[k].type = "function_call_output" =>
               Trim(responses_input[k].call_id) \in
                   {Trim(id) : id \in FunctionCallsBefore(responses_input, k)}

\* a converted request that kept one tool result and dropped an orphan one
C1_Witness ==
    /\ conv_pc = "responses"
    /\ HasOrphanToolResult(claude_messages)
    /\ \E k \in DOMAIN openai_messages : openai_messages[k].role = ROLE_TOOL
    /\ \E k \in DOMAIN responses_input : responses_input[k].type = "function_call_output"

(***************************************************************************)
(* C12  A dropped tool_result keeps the user content                       *)
(***************************************************************************)
\* the part of the converted request that source message k produced
EmittedFor(k) ==
    SubSeq(openai_messages,
           Len(convert_message_list(SubSeq(claude_messages, 1, k - 1))) + 1,
           Len(convert_message_list(SubSeq(claude_messages, 1, k))))

BlocksOfType(message, type) ==
    {b \in DOMAIN message.content.blocks : message.content.blocks[b].type = type}

\* source message k is a user message that lost a tool_result block and has
\* other content
DroppedToolResultWithContent(k) ==
    LET message == claude_messages[k]
    IN /\ message.role = ROLE_USER
       /\ message.content.kind = "blocks"
       /\ BlocksOfType(message, "tool_result") # {}
       /\ Cardinality(BlocksOfType(message, "tool_result")) >
              Cardinality({i \in DOMAIN EmittedFor(k) : EmittedFor(k)[i].role = ROLE_TOOL})
       /\ DOMAIN message.content.blocks # BlocksOfType(message, "tool_result")

\* C12: when a tool_result block of a user message is dropped, the other
\* content of that message is still emitted as one user message, after the
\* tool messages of that source message.
C12_DroppedToolResultKeepsUserContent ==
    conv_pc # "request" =>
        \A k \in DOMAIN claude_messages :
            DroppedToolResultWithContent(k) =>
                LET emitted == EmittedFor(k)
                    texts == BlocksOfType(claude_messages[k], "text")
                IN /\ emitted # <<>>
                   /\ emitted[Len(emitted)].role = ROLE_USER
                   /\ \A i \in 1..(Len(emitted) - 1) : emitted[i].role = ROLE_TOOL
                   /\ \A b \in texts :
                          Cardinality(texts) = 1 =>
                              emitted[Len(emitted)].content =
                                  <<"text", claude_messages[k].content.blocks[b].text>>

\* one tool_result kept, one dropped, and the text emitted after the tool message
C12_Witness ==
    /\ conv_pc # "request"
    /\ \E k \in DOMAIN claude_messages :
           /\ DroppedToolResultWithContent(k)
           /\ Len(EmittedFor(k)) = 2
           /\ EmittedFor(k)[1].role = ROLE_TOOL
           /\ EmittedFor(k)[2].role = ROLE_USER

(***************************************************************************)
(* Session manager (state.rs).  Instants and durations are whole seconds;  *)
(* a session id is the serial number of the UUID it was issued as.         *)
(***************************************************************************)
SESSION_TTL_TOKEN_K == 50000

Identities == {"x", "y"}

EmptySessions == [identity \in {} |-> 0]

SessionEntry(session_id, last_seen, total_tokens) ==
    [session_id |-> session_id, last_seen |-> last_seen, total_tokens |-> total_tokens]

\* SessionManager::new(ttl_min_secs, ttl_max_secs, cleanup_interval_secs)
NewSessionManager(ttl_min_secs, ttl_max_secs, cleanup_interval_secs) ==
    [ttl_min |-> ttl_min_secs, ttl_max |-> ttl_max_secs,
     cleanup_interval |-> cleanup_interval_secs]

NewSessionStore == [sessions |-> EmptySessions, last_cleanup |-> 0]

\* now.checked_duration_since(earlier).unwrap_or_default()
checked_duration_since(now, earlier) == IF now >= earlier THEN now - earlier ELSE 0

\* a.wrapping_add(b) on total_tokens
wrapping_add(a, b) == (a + b) % (MaxTokens + 1)

\* a.saturating_add(b) on total_tokens
saturating_add(a, b) == IF a > MaxTokens - b THEN MaxTokens ELSE a + b

CeilDiv(a, b) == (a + b - 1) \div b

Clamp(v, lo, hi) == IF v < lo THEN lo ELSE IF v > hi THEN hi ELSE v

\* state.rs:139-151 with the factor K / (usage + K)
dynamic_ttl_shrinking(self, total_tokens) ==
    IF self.ttl_max <= self.ttl_min THEN self.ttl_min
    ELSE LET span == self.ttl_max - self.ttl_min
             scaled == (span * SESSION_TTL_TOKEN_K) \div (total_tokens + SESSION_TTL_TOKEN_K)
         IN Clamp(self.ttl_min + scaled, self.ttl_min, self.ttl_max)

\* state.rs:139-151.  ttl_secs = min + (max - min) * usage / (usage + K),
\* clamped, truncated to whole seconds.  floor(span * usage / (usage + K)) is
\* computed as span - ceil(span * K / (usage + K)), which is the same number
\* and keeps the intermediate product small.
dynamic_ttl(self, total_tokens) ==
    IF self.ttl_max <= self.ttl_min THEN self.ttl_min
    ELSE LET span == self.ttl_max - self.ttl_min
             scaled == span - CeilDiv(span * SESSION_TTL_TOKEN_K,
                                      total_tokens + SESSION_TTL_TOKEN_K)
         IN Clamp(self.ttl_min + scaled, self.ttl_min, self.ttl_max)

\* state.rs:132-137 with >= for >
is_expired_at_ttl(self, entry, now) ==
    checked_duration_since(now, entry.last_seen) >= dynamic_ttl(self, entry.total_tokens)

\* state.rs:132-137
is_expired(self, entry, now) ==
    checked_duration_since(now, entry.last_seen) > dynamic_ttl(self, entry.total_tokens)

\* state.rs:124-130; returns the store, the count and the identities removed
cleanup_expired_locked(self, st, now) ==
    LET before == DOMAIN st.sessions
        retained == {identity \in before : ~is_expired(self, st.sessions[identity], now)}
    IN [store |-> [st EXCEPT !.sessions = [identity \in retained |-> st.sessions[identity]]],
        removed |-> Cardinality(before) - Cardinality(retained),
        evicted |-> before \ retained]

\* state.rs:112-122
maybe_cleanup_locked(self, st, now) ==
    IF checked_duration_since(now, st.last_cleanup) < self.cleanup_interval
    THEN [store |-> st, removed |-> 0, evicted |-> {}]
    ELSE LET cleaned == cleanup_expired_locked(self, st, now)
         IN [cleaned EXCEPT !.store.last_cleanup = now]

LogEntry(op, identities, session_id) ==
    [op |-> op, identities |-> identities, session_id |-> session_id]

LogEvicted(log, evicted) ==
    IF evicted = {} THEN log ELSE Append(log, LogEntry("evict", evicted, 0))

Call(op, identity, tokens, now, before, result) ==
    [op |-> op, identity |-> identity, tokens |-> tokens, now |-> now,
     before |-> before, result |-> result]

\* state.rs:55-75 with the entry replaced on every call
resolve_session_id_renewing(self, st, identity_key, now, uuid) ==
    LET swept == maybe_cleanup_locked(self, st, now)
    IN [store |-> [swept.store EXCEPT !.sessions =
                       MapInsert(@, identity_key, SessionEntry(uuid, now, 0))],
        session_id |-> uuid,
        issued |-> TRUE,
        evicted |-> swept.evicted]

\* state.rs:55-75; uuid is the id Uuid::new_v4() yields if one is drawn
resolve_session_id(self, st, identity_key, now, uuid) ==
    LET swept == maybe_cleanup_locked(self, st, now)
        sessions == swept.store.sessions
    IN IF identity_key \in DOMAIN sessions
       THEN [store |-> [swept.store EXCEPT !.sessions[identity_key].last_seen = now],
             session_id |-> sessions[identity_key].session_id,
             issued |-> FALSE,
             evicted |-> swept.evicted]
       ELSE [store |-> [swept.store EXCEPT !.sessions =
                            MapInsert(@, identity_key, SessionEntry(uuid, now, 0))],
             session_id |-> uuid,
             issued |-> TRUE,
             evicted |-> swept.evicted]

\* state.rs:78-84
touch(st, identity_key, now) ==
    IF identity_key \in DOMAIN st.sessions
    THEN [st EXCEPT !.sessions[identity_key].last_seen = now]
    ELSE st

\* state.rs:86-103
add_usage(st, identity_key, tokens, now, uuid) ==
    IF identity_key \in DOMAIN st.sessions
    THEN [store |-> [st EXCEPT !.sessions[identity_key].total_tokens =
                                   saturating_add(@, tokens),
                               !.sessions[identity_key].last_seen = now],
          issued |-> FALSE]
    ELSE [store |-> [st EXCEPT !.sessions =
                         MapInsert(@, identity_key, SessionEntry(uuid, now, tokens))],
          issued |-> TRUE]

\* state.rs:105-110 with the sweep left out
cleanup_expired_stamp_only(self, st, now) ==
    [store |-> [st EXCEPT !.last_cleanup = now], removed |-> 0, evicted |-> {}]

\* state.rs:105-110
cleanup_expired(self, st, now) ==
    LET cleaned == cleanup_expired_locked(self, st, now)
    IN [cleaned EXCEPT !.store.last_cleanup = now]

ManagerConfigs ==
    {NewSessionManager(60, 3600, 60),
     NewSessionManager(60, 3600, 3600),
     NewSessionManager(90, 60, 60),
     NewSessionManager(60, 60, 120)}

TickSteps == {60, 120, 3600}

UsageAmounts == {0, 50000, 10000000}

InitSession ==
    /\ ConvIdle
    /\ StreamIdle
    /\ CallIdle
    /\ manager \in ManagerConfigs
    /\ store = NewSessionStore
    /\ clock = 0
    /\ next_uuid = 0
    /\ session_log = <<>>
    /\ last_call = Call("new", "", 0, 0, EmptySessions, 0)
    /\ session_steps = 0
    /\ tasks = <<>>
    /\ lock = <<>>

SessionStep ==
    /\ session_steps < MaxSessionSteps
    /\ session_steps' = session_steps + 1
    /\ UNCHANGED <<manager, tasks, lock>>
    /\ UNCHANGED conv_vars
    /\ UNCHANGED stream_vars
    /\ UNCHANGED call_vars

\* time passes between two calls
Tick ==
    /\ SessionStep
    /\ \E d \in TickSteps : clock' = clock + d
    /\ UNCHANGED <<store, next_uuid, session_log, last_call>>

\* handlers.rs:73
ResolveSessionId ==
    /\ SessionStep
    /\ \E identity \in Identities :
           LET resolved == resolve_session_id(manager, store, identity, clock, next_uuid + 1)
           IN /\ store' = resolved.store
              /\ next_uuid' = IF resolved.issued THEN next_uuid + 1 ELSE next_uuid
              /\ session_log' = Append(LogEvicted(session_log, resolved.evicted),
                                       LogEntry("resolve", {identity}, resolved.session_id))
              /\ last_call' = Call("resolve_session_id", identity, 0, clock,
                                   store.sessions, resolved.session_id)
    /\ UNCHANGED clock

Touch ==
    /\ SessionStep
    /\ \E identity \in Identities :
           /\ store' = touch(store, identity, clock)
           /\ last_call' = Call("touch", identity, 0, clock, store.sessions, 0)
    /\ UNCHANGED <<clock, next_uuid, session_log>>

\* handlers.rs:264, 306, 344, 382
AddUsage ==
    /\ SessionStep
    /\ \E identity \in Identities, tokens \in UsageAmounts :
           LET added == add_usage(store, identity, tokens, clock, next_uuid + 1)
           IN /\ store' = added.store
              /\ next_uuid' = IF added.issued THEN next_uuid + 1 ELSE next_uuid
              /\ last_call' = Call("add_usage", identity, tokens, clock, store.sessions, 0)
    /\ UNCHANGED <<clock, session_log>>

\* the background sweep, app.rs:76
CleanupExpired ==
    /\ SessionStep
    /\ LET cleaned == cleanup_expired(manager, store, clock)
       IN /\ store' = cleaned.store
          /\ session_log' = LogEvicted(session_log, cleaned.evicted)
          /\ last_call' = Call("cleanup_expired", "", 0, clock, store.sessions,
                               cleaned.removed)
    /\ UNCHANGED <<clock, next_uuid>>

NextSession ==
    \/ Tick
    \/ ResolveSessionId
    \/ Touch
    \/ AddUsage
    \/ CleanupExpired

SpecSession == InitSession /\ [][NextSession]_vars

(***************************************************************************)
(* C14                                                                     *)
(***************************************************************************)
IsResolveOf(k, identity) ==
    /\ session_log[k].op = "resolve"
    /\ session_log[k].identities = {identity}

EvictedBetween(identity, i, j) ==
    \E k \in (i + 1)..(j - 1) :
        /\ session_log[k].op = "evict"
        /\ identity \in session_log[k].identities

\* C14: two resolve_session_id calls for one identity return the same
\* session_id whenever the identity's entry was not evicted between them,
\* whatever resolve, touch or add_usage calls happen in between.
C14_SessionIdempotence ==
    \A identity \in Identities :
        \A i \in DOMAIN session_log : \A j \in DOMAIN session_log :
            ( /\ i < j
              /\ IsResolveOf(i, identity)
              /\ IsResolveOf(j, identity)
              /\ ~EvictedBetween(identity, i, j) )
            => session_log[i].session_id = session_log[j].session_id

\* x is resolved, then y is resolved and x's usage grows and time passes,
\* then x is resolved again without an eviction in between
C14_Witness ==
    \E i \in DOMAIN session_log : \E j \in DOMAIN session_log :
        /\ i + 1 < j
        /\ IsResolveOf(i, "x")
        /\ IsResolveOf(j, "x")
        /\ ~EvictedBetween("x", i, j)
        /\ \E k \in (i + 1)..(j - 1) : IsResolveOf(k, "y")
        /\ "x" \in DOMAIN store.sessions
        /\ store.sessions["x"].total_tokens > 0

(***************************************************************************)
(* C15                                                                     *)
(***************************************************************************)
AgeAt(now, entry) == now - entry.last_seen

\* the entries cleanup_expired(now) has to remove
DueAt(self, before, now) ==
    {identity \in DOMAIN before :
        AgeAt(now, before[identity]) > dynamic_ttl(self, before[identity].total_tokens)}

\* C15: cleanup_expired(now) removes exactly the entries with
\* now - last_seen > adaptive_ttl(total_tokens), leaves every other entry
\* unchanged (age equal to the TTL is retained) and returns the number
\* removed; with ttl_min = 60 and ttl_max = 3600 an entry aged 120 s is
\* evicted at 0 tokens and retained at 10,000,000 tokens.
C15_EvictionExactness ==
    last_call.op = "cleanup_expired" =>
        LET before == last_call.before
            now == last_call.now
            due == DueAt(manager, before, now)
        IN /\ DOMAIN store.sessions = DOMAIN before \ due
           /\ \A identity \in DOMAIN store.sessions :
                  store.sessions[identity] = before[identity]
           /\ last_call.result = Cardinality(due)
           /\ \A identity \in DOMAIN before :
                  ( /\ manager.ttl_min = 60
                    /\ manager.ttl_max = 3600
                    /\ AgeAt(now, before[identity]) = 120 )
                  => /\ before[identity].total_tokens = 0
                        => identity \notin DOMAIN store.sessions
                     /\ before[identity].total_tokens = 10000000
                        => identity \in DOMAIN store.sessions

\* a sweep under (60, 3600) that met one entry aged 120 s with no tokens and
\* one aged 120 s with 10,000,000 tokens, and removed one entry
C15_Witness ==
    /\ last_call.op = "cleanup_expired"
    /\ manager.ttl_min = 60
    /\ manager.ttl_max = 3600
    /\ last_call.result = 1
    /\ \E a \in DOMAIN last_call.before : \E b \in DOMAIN last_call.before :
           /\ AgeAt(last_call.now, last_call.before[a]) = 120
           /\ last_call.before[a].total_tokens = 0
           /\ AgeAt(last_call.now, last_call.before[b]) = 120
           /\ last_call.before[b].total_tokens = 10000000
           /\ DOMAIN store.sessions = {b}

(***************************************************************************)
(* C16                                                                     *)
(***************************************************************************)
\* token counts around the steps of the curve, and those held by the store
TokenSamples ==
    {0, 1, 14, 15, 862, 863, 49999, 50000, 50001, 10000000, MaxTokens}
        \cup {store.sessions[identity].total_tokens : identity \in DOMAIN store.sessions}

\* C16: dynamic_ttl never decreases when the token count grows, lies between
\* ttl_min and ttl_max when ttl_min <= ttl_max, and is ttl_min when
\* ttl_max <= ttl_min.
C16_AdaptiveTtlBoundedMonotonic ==
    /\ \A a \in TokenSamples : \A b \in TokenSamples :
           a <= b => dynamic_ttl(manager, a) <= dynamic_ttl(manager, b)
    /\ manager.ttl_min <= manager.ttl_max =>
           \A tokens \in TokenSamples :
               /\ manager.ttl_min <= dynamic_ttl(manager, tokens)
               /\ dynamic_ttl(manager, tokens) <= manager.ttl_max
    /\ manager.ttl_max <= manager.ttl_min =>
           \A tokens \in TokenSamples : dynamic_ttl(manager, tokens) = manager.ttl_min

\* a sweep has judged an entry whose TTL lies strictly between the two ends
\* and strictly above that of an entry without tokens
C16_Witness ==
    /\ last_call.op = "cleanup_expired"
    /\ manager.ttl_min < manager.ttl_max
    /\ \E identity \in DOMAIN last_call.before :
           LET ttl == dynamic_ttl(manager, last_call.before[identity].total_tokens)
           IN /\ manager.ttl_min < ttl
              /\ ttl < manager.ttl_max
              /\ dynamic_ttl(manager, 0) < ttl
              /\ AgeAt(last_call.now, last_call.before[identity]) > manager.ttl_min
              /\ identity \in DOMAIN store.sessions

(***************************************************************************)
(* C25                                                                     *)
(***************************************************************************)
\* the state right after an add_usage call, against the map before the call
AddUsageExact ==
    last_call.op = "add_usage" =>
        LET before == last_call.before
            identity == last_call.identity
            after == store.sessions
        IN /\ DOMAIN after = DOMAIN before \cup {identity}
           /\ \A other \in DOMAIN before \ {identity} : after[other] = before[other]
           /\ after[identity].last_seen = last_call.now
           /\ IF identity \in DOMAIN before
              THEN /\ after[identity].session_id = before[identity].session_id
                   /\ after[identity].total_tokens >= before[identity].total_tokens
                   /\ after[identity].total_tokens =
                          IF before[identity].total_tokens + last_call.tokens > MaxTokens
                          THEN MaxTokens
                          ELSE before[identity].total_tokens + last_call.tokens
              ELSE after[identity].total_tokens = last_call.tokens

\* C25: add_usage adds the tokens to the entry's total_tokens with saturation
\* at the maximum, stamps last_seen = now, leaves the entry's session_id and
\* every other entry unchanged, and creates an entry with total_tokens =
\* tokens when the identity is absent; total_tokens of a live entry never
\* decreases.
C25_AddUsage ==
    [][ /\ (last_call' # last_call => AddUsageExact')
        /\ \A identity \in DOMAIN store.sessions \cap DOMAIN store'.sessions :
               store'.sessions[identity].session_id = store.sessions[identity].session_id
                   => store'.sessions[identity].total_tokens
                          >= store.sessions[identity].total_tokens ]_vars

\* usage credited to an entry whose total reaches the maximum and stays there
C25_Witness ==
    /\ last_call.op = "add_usage"
    /\ last_call.identity \in DOMAIN last_call.before
    /\ last_call.before[last_call.identity].total_tokens > 0
    /\ last_call.before[last_call.identity].total_tokens + last_call.tokens > MaxTokens
    /\ store.sessions[last_call.identity].total_tokens = MaxTokens
    /\ store.sessions[last_call.identity].last_seen > last_call.before[last_call.identity].last_seen

(***************************************************************************)
(* Concurrent use of the session manager: two request handlers and the     *)
(* background cleanup task share SessionManager.inner.  A task reads the   *)
(* clock, waits for the write guard, runs the whole body of its operation  *)
(* on the guarded store and drops the guard when it returns.               *)
(***************************************************************************)
NoTask == "none"

Handlers == {"h1", "h2"}

Sweeper == "sweeper"

Tasks == Handlers \cup {Sweeper}

\* the shortest step of the clock
TaskTick == CHOOSE d \in TickSteps : \A other \in TickSteps : d <= other

\* the last clock reading told apart; it stands for every later time as well
Horizon == MaxTicks * TaskTick

TaskManagers == {NewSessionManager(60, 120, 60), NewSessionManager(60, 60, 120)}

\* h1 resolves x; h2 resolves or credits either identity
HandlerCalls(t) ==
    IF t = "h1"
    THEN {[op |-> "resolve_session_id", identity |-> "x"]}
    ELSE [op : {"resolve_session_id", "add_usage"}, identity : Identities]

NoPending == [store |-> <<>>, result |-> 0, issued |-> FALSE, evicted |-> {}]

Task(task_pc, op, identity, now) ==
    [pc |-> task_pc, op |-> op, identity |-> identity, now |-> now, wake |-> 0,
     pending |-> NoPending, result |-> 0, raced |-> FALSE, at |-> 0]

LongestTtl(self) == IF self.ttl_max > self.ttl_min THEN self.ttl_max ELSE self.ttl_min

\* self.inner.write().await with no regard for the current holder
write_unguarded(holder) == TRUE

\* self.inner.write().await completes when nobody holds the guard
write(holder) == holder = NoTask

\* the body of the task's operation, run on the guarded store
GuardedBody(task, uuid) ==
    IF task.op = "resolve_session_id"
    THEN LET resolved == resolve_session_id(manager, store, task.identity, task.now, uuid)
         IN [store |-> resolved.store, result |-> resolved.session_id,
             issued |-> resolved.issued, evicted |-> resolved.evicted]
    ELSE IF task.op = "add_usage"
    THEN LET added == add_usage(store, task.identity, SESSION_TTL_TOKEN_K, task.now, uuid)
         IN [store |-> added.store, result |-> 0, issued |-> added.issued, evicted |-> {}]
    ELSE LET cleaned == cleanup_expired(manager, store, task.now)
         IN [store |-> cleaned.store, result |-> cleaned.removed,
             issued |-> FALSE, evicted |-> cleaned.evicted]

InitTasks ==
    /\ ConvIdle
    /\ StreamIdle
    /\ CallIdle
    /\ manager \in TaskManagers
    /\ store = NewSessionStore
    /\ clock = 0
    /\ next_uuid = 0
    /\ session_log = <<>>
    /\ last_call = <<>>
    /\ session_steps = 0
    /\ tasks = [t \in Tasks |->
                   IF t = Sweeper
                   THEN [Task("sleeping", "cleanup_expired", "", 0)
                             EXCEPT !.wake = IF manager.cleanup_interval > 1
                                             THEN manager.cleanup_interval ELSE 1]
                   ELSE Task("ready", "", "", 0)]
    /\ lock = NoTask

TaskFrame ==
    /\ UNCHANGED <<manager, last_call, session_steps>>
    /\ UNCHANGED conv_vars
    /\ UNCHANGED stream_vars
    /\ UNCHANGED call_vars

\* time passes
TaskTime ==
    /\ clock < Horizon
    /\ clock' = clock + TaskTick
    /\ UNCHANGED <<store, next_uuid, session_log, tasks, lock>>
    /\ TaskFrame

\* state.rs:56, 87: a handler calls resolve_session_id or add_usage and reads
\* the clock; requests arrive while the horizon still covers their expiry
Begin(t) ==
    /\ t \in Handlers
    /\ tasks[t].pc = "ready"
    /\ clock + LongestTtl(manager) + TaskTick <= Horizon
    /\ \E call \in HandlerCalls(t) :
           tasks' = [tasks EXCEPT ![t] = Task("called", call.op, call.identity, clock)]
    /\ UNCHANGED <<store, clock, next_uuid, session_log, lock>>
    /\ TaskFrame

\* app.rs:74-76: the sleep of the cleanup task is over and the argument
\* Instant::now() of cleanup_expired is evaluated
Wake ==
    /\ tasks[Sweeper].pc = "sleeping"
    /\ (clock >= tasks[Sweeper].wake \/ clock = Horizon)
    /\ tasks' = [tasks EXCEPT ![Sweeper].pc = "called", ![Sweeper].now = clock,
                              ![Sweeper].wake = 0]
    /\ UNCHANGED <<store, clock, next_uuid, session_log, lock>>
    /\ TaskFrame

\* state.rs:57, 80, 88, 106: the task gets the write guard and runs the body
\* of its operation on the guarded store
Enter(t) ==
    /\ tasks[t].pc = "called"
    /\ write(lock)
    /\ lock' = t
    /\ LET done == GuardedBody(tasks[t], next_uuid + 1)
       IN /\ tasks' = [tasks EXCEPT ![t].pc = "locked",
                                    ![t].pending = done,
                                    ![t].raced = /\ t \in Handlers
                                                 /\ \E other \in Handlers \ {t} :
                                                        tasks[other].pc \in {"called", "locked"}]
          /\ next_uuid' = IF done.issued THEN next_uuid + 1 ELSE next_uuid
    /\ UNCHANGED <<store, clock, session_log>>
    /\ TaskFrame

\* the operation returns and the guard is dropped: the guarded store becomes
\* the shared one; the cleanup task goes back to sleep (app.rs:75)
Leave(t) ==
    /\ tasks[t].pc = "locked"
    /\ lock' = NoTask
    /\ store' = tasks[t].pending.store
    /\ session_log' =
           LET swept == LogEvicted(session_log, tasks[t].pending.evicted)
           IN IF tasks[t].op = "resolve_session_id"
              THEN Append(swept, LogEntry("resolve", {tasks[t].identity},
                                          tasks[t].pending.result))
              ELSE swept
    /\ tasks' = [tasks EXCEPT
                     ![t].pc = IF t = Sweeper THEN "sleeping" ELSE "returned",
                     ![t].result = IF t = Sweeper THEN 0 ELSE tasks[t].pending.result,
                     ![t].pending = NoPending,
                     ![t].now = IF t = Sweeper THEN 0 ELSE @,
                     ![t].at = IF t = Sweeper THEN 0 ELSE Len(session_log'),
                     ![t].wake = IF t = Sweeper
                                 THEN clock + (IF manager.cleanup_interval > 1
                                               THEN manager.cleanup_interval ELSE 1)
                                 ELSE 0]
    /\ UNCHANGED <<clock, next_uuid>>
    /\ TaskFrame

NextTasks ==
    \/ TaskTime
    \/ \E t \in Handlers : Begin(t)
    \/ Wake
    \/ \E t \in Tasks : Enter(t)
    \/ \E t \in Tasks : Leave(t)

SpecTasks == InitTasks /\ [][NextTasks]_vars

\* the runtime keeps polling the cleanup task and the timer (app.rs:72-77),
\* nothing awaits between taking and dropping the guard (state.rs:57-75,
\* 88-103, 106-110), and the guard is free again once the handlers returned
SpecTasksFair ==
    /\ SpecTasks
    /\ WF_vars(TaskTime)
    /\ WF_vars(Wake)
    /\ WF_vars(Enter(Sweeper))
    /\ \A t \in Tasks : WF_vars(Leave(t))

(***************************************************************************)
(* C29                                                                     *)
(***************************************************************************)
Returned(t, identity) ==
    /\ tasks[t].pc = "returned"
    /\ tasks[t].op = "resolve_session_id"
    /\ tasks[t].identity = identity

EvictedAfter(identity, i) ==
    \E k \in (i + 1)..Len(session_log) :
        /\ session_log[k].op = "evict"
        /\ identity \in session_log[k].identities

\* C29: under any interleaving of concurrent resolve_session_id, add_usage
\* and cleanup_expired tasks at most one task works on the session map at a
\* time, the map holds one entry per identity (the session_id a resolve
\* returned is the one the map holds until the identity is evicted), and two
\* concurrent resolve_session_id calls for one identity return the same
\* session_id when no cleanup evicts the entry between them.
C29_AtomicSessionOperations ==
    /\ Cardinality({t \in Tasks : tasks[t].pc = "locked"}) <= 1
    /\ \A identity \in Identities :
           /\ \A i \in DOMAIN session_log :
                  (IsResolveOf(i, identity) /\ ~EvictedAfter(identity, i))
                      => /\ identity \in DOMAIN store.sessions
                         /\ store.sessions[identity].session_id = session_log[i].session_id
           /\ \A first \in Handlers : \A second \in Handlers :
                  ( /\ Returned(first, identity)
                    /\ Returned(second, identity)
                    /\ tasks[first].at < tasks[second].at
                    /\ ~EvictedBetween(identity, tasks[first].at, tasks[second].at) )
                  => tasks[first].result = tasks[second].result

\* both handlers had called resolve_session_id for the absent identity x
\* before either got the guard; one id was issued and both returned it
C29_Witness ==
    /\ Returned("h1", "x")
    /\ Returned("h2", "x")
    /\ tasks["h1"].raced
    /\ tasks["h1"].at < tasks["h2"].at
    /\ next_uuid = 1
    /\ tasks["h1"].result = 1
    /\ tasks["h2"].result = 1
    /\ "x" \in DOMAIN store.sessions

(***************************************************************************)
(* C26                                                                     *)
(***************************************************************************)
\* the clock readings a handler can stamp on an entry
Stamps == {n * TaskTick : n \in 0..MaxTicks}

\* C26: under fair scheduling of the background cleanup task, a session
\* entry that is not resolved, touched or credited again (its last_seen
\* stays as it is) is eventually removed from the session map.
C26_EventualEviction ==
    \A identity \in Identities : \A stamp \in Stamps :
        (identity \in DOMAIN store.sessions /\ store.sessions[identity].last_seen = stamp)
            ~> (identity \notin DOMAIN store.sessions
                    \/ store.sessions[identity].last_seen # stamp)

\* the cleanup task holds the guard and its sweep removes x, whose adaptive
\* TTL has elapsed since last_seen, while both handlers have returned
C26_Witness ==
    /\ tasks[Sweeper].pc = "locked"
    /\ "x" \in tasks[Sweeper].pending.evicted
    /\ "x" \in DOMAIN store.sessions
    /\ tasks[Sweeper].now - store.sessions["x"].last_seen
           > dynamic_ttl(manager, store.sessions["x"].total_tokens)
    /\ \A t \in Handlers : tasks[t].pc = "returned"

(***************************************************************************)
(* Text functions of the standard library, on sequences of characters      *)
(***************************************************************************)
UpperCase ==
    <<"A", "B", "C", "D", "E", "F", "G", "H", "I", "J", "K", "L", "M", "N", "O", "P", "Q", "R",
      "S", "T", "U", "V", "W", "X", "Y", "Z">>

LowerCase ==
    <<"a", "b", "c", "d", "e", "f", "g", "h", "i", "j", "k", "l", "m", "n", "o", "p", "q", "r",
      "s", "t", "u", "v", "w", "x", "y", "z">>

to_lowercase_char(c) ==
    IF \E i \in DOMAIN UpperCase : UpperCase[i] = c
    THEN LowerCase[CHOOSE i \in DOMAIN UpperCase : UpperCase[i] = c]
    ELSE c

to_lowercase(s) == [i \in 1..Len(s) |-> to_lowercase_char(s[i])]

starts_with(s, prefix) ==
    /\ Len(prefix) <= Len(s)
    /\ SubSeq(s, 1, Len(prefix)) = prefix

contains(s, needle) ==
    \E i \in 0..(Len(s) - Len(needle)) : SubSeq(s, i + 1, i + Len(needle)) = needle

(***************************************************************************)
(* Model routing (conversion/request/models.rs)                            *)
(***************************************************************************)
Config(big_model, middle_model, small_model) ==
    [big_model |-> big_model, middle_model |-> middle_model, small_model |-> small_model]

\* models.rs:259-266
is_upstream_native_model(model) ==
    LET lowered == to_lowercase(model)
    IN \/ starts_with(lowered, <<"g", "p", "t", "-">>)
       \/ starts_with(lowered, <<"o", "1", "-">>)
       \/ starts_with(lowered, <<"e", "p", "-">>)
       \/ starts_with(lowered, <<"d", "o", "u", "b", "a", "o", "-">>)
       \/ starts_with(lowered, <<"d", "e", "e", "p", "s", "e", "e", "k", "-">>)

\* models.rs:244-257
map_claude_model_to_openai(claude_model, config) ==
    IF is_upstream_native_model(claude_model) THEN claude_model
    ELSE LET model_lower == to_lowercase(claude_model)
         IN IF contains(model_lower, <<"h", "a", "i", "k", "u">>) THEN config.small_model
            ELSE IF contains(model_lower, <<"s", "o", "n", "n", "e", "t">>) THEN config.middle_model
            ELSE config.big_model

\* models.rs:268-274
supports_reasoning_effort(model) ==
    LET lowered == to_lowercase(model)
    IN \/ starts_with(lowered, <<"o", "1">>)
       \/ starts_with(lowered, <<"o", "3">>)
       \/ starts_with(lowered, <<"o", "4">>)
       \/ starts_with(lowered, <<"g", "p", "t", "-", "5">>)

(***************************************************************************)
(* Reasoning effort (conversion/request/tools.rs)                          *)
(***************************************************************************)
NoThinking == [present |-> FALSE, thinking_type |-> None, budget_tokens |-> <<>>]

\* budget_tokens is <<>> for None and <<n>> for Some(n)
ClaudeThinking(thinking_type, budget_tokens) ==
    [present |-> TRUE, thinking_type |-> thinking_type, budget_tokens |-> budget_tokens]

NoEffort == <<>>

\* tools.rs:69-76
thinking_enabled(mode, has_budget_tokens) ==
    IF IsSome(mode)
    THEN LET value == to_lowercase(Trim(mode))
         IN IF \/ value = <<"d", "i", "s", "a", "b", "l", "e", "d">>
               \/ value = <<"o", "f", "f">>
               \/ value = <<"n", "o", "n", "e">>
            THEN FALSE
            ELSE TRUE
    ELSE has_budget_tokens

\* tools.rs:58-67
is_thinking_requested(thinking) ==
    IF ~thinking.present THEN FALSE
    ELSE thinking_enabled(thinking.thinking_type, thinking.budget_tokens # <<>>)

\* tools.rs:78-87
effort_by_absolute_budget(budget_tokens) ==
    LET clamped == Clamp(budget_tokens, 1, 65536)
    IN IF clamped <= 2048 THEN "low"
       ELSE IF clamped <= 8192 THEN "medium"
       ELSE "high"

\* tools.rs:89-102.  budget / max_tokens < 0.25 is 4 * budget < max_tokens and
\* budget / max_tokens <= 0.6 is 5 * budget <= 3 * max_tokens: the f64
\* quotient of two u32 cannot round across either threshold.
effort_by_budget_ratio(budget_tokens, max_tokens) ==
    IF max_tokens = 0 THEN "medium"
    ELSE IF 4 * budget_tokens < max_tokens THEN "low"
    ELSE IF 5 * budget_tokens <= 3 * max_tokens THEN "medium"
    ELSE "high"

\* tools.rs:112-119
effort_rank(value) ==
    CASE value = "high" -> 3
      [] value = "medium" -> 2
      [] value = "low" -> 1
      [] OTHER -> 0

\* tools.rs:104-110 returning the absolute-budget effort whatever the ratio
higher_effort_left(left, right) == left

\* tools.rs:104-110
higher_effort(left, right) ==
    IF effort_rank(left) >= effort_rank(right) THEN left ELSE right

\* tools.rs:29-56
derive_reasoning_effort(thinking, max_tokens, upstream_model) ==
    IF ~supports_reasoning_effort(upstream_model) THEN NoEffort
    ELSE IF ~thinking.present THEN <<"low">>
    ELSE IF ~is_thinking_requested(thinking) THEN <<"low">>
    ELSE IF thinking.budget_tokens = <<>> THEN <<"medium">>
    ELSE LET budget_tokens == thinking.budget_tokens[1]
             absolute_effort == effort_by_absolute_budget(budget_tokens)
             ratio_effort == effort_by_budget_ratio(budget_tokens, max_tokens)
         IN <<higher_effort(absolute_effort, ratio_effort)>>

(***************************************************************************)
(* The converted request's model and reasoning effort                      *)
(* (convert_claude_to_openai, conversion/request/mod.rs:27-93)             *)
(***************************************************************************)
RequestedModels ==
    {<<"g", "p", "t", "-", "4", "o">>,
     <<"G", "P", "T", "-", "4", "o">>,
     <<"g", "p", "t", "-", "5", "-", "m", "i", "n", "i">>,
     <<"o", "1", "-", "m", "i", "n", "i">>,
     <<"o", "3", "-", "m", "i", "n", "i">>,
     <<"O", "4", "-", "m", "i", "n", "i">>,
     <<"o", "3">>,
     <<"e", "p", "-", "1">>,
     <<"D", "o", "u", "b", "a", "o", "-", "p", "r", "o">>,
     <<"d", "e", "e", "p", "s", "e", "e", "k", "-", "c", "h", "a", "t">>,
     <<"c", "l", "a", "u", "d", "e", "-", "3", "-", "h", "a", "i", "k", "u">>,
     <<"c", "l", "a", "u", "d", "e", "-", "s", "o", "n", "n", "e", "t", "-", "4">>,
     <<"C", "l", "a", "u", "d", "e", "-", "O", "p", "u", "s", "-", "4">>,
     <<"c", "l", "a", "u", "d", "e", "-", "H", "A", "I", "K", "U", "-", "s", "o", "n", "n",
       "e", "t">>,
     <<"h", "a", "i", "k", "u", "-", "g", "p", "t", "-">>}

Configs ==
    {Config(<<"g", "p", "t", "-", "4", ".", "1">>,
            <<"G", "P", "T", "-", "5">>,
            <<"o", "4", "-", "m", "i", "n", "i">>),
     Config(<<"o", "3">>,
            <<"g", "p", "t", "-", "4", "o">>,
            <<"g", "p", "t", "-", "4", "o", "-", "m", "i", "n", "i">>)}

ThinkingTypes ==
    {None,
     <<"d", "i", "s", "a", "b", "l", "e", "d">>,
     <<" ", "O", "f", "f", " ">>,
     <<"N", "O", "N", "E">>,
     <<"e", "n", "a", "b", "l", "e", "d">>,
     <<"a", "d", "a", "p", "t", "i", "v", "e">>}

BudgetTokens ==
    {<<>>, <<0>>, <<999>>, <<1000>>, <<2048>>, <<2049>>, <<2400>>, <<2401>>,
     <<8192>>, <<8193>>, <<10000>>}

Thinkings ==
    {NoThinking}
        \cup {ClaudeThinking(t, b) : t \in ThinkingTypes, b \in BudgetTokens}

MaxTokensValues == {0, 2048, 4000, 40001}

NoResult == [ok |-> TRUE, status |-> 0, message |-> <<>>]

InitFields ==
    /\ ConvIdle
    /\ StreamIdle
    /\ SessionIdle
    /\ HandlerIdle
    /\ claude_request \in [model : RequestedModels, thinking : Thinkings,
                           max_tokens : MaxTokensValues]
    /\ bridge_config \in Configs
    /\ openai_request = [model |-> None, reasoning_effort |-> NoEffort]
    /\ upstream_reply = <<>>
    /\ upstream_result = NoResult
    /\ call_pc = "request"

\* mod.rs:31
MapModel ==
    /\ call_pc = "request"
    /\ openai_request' =
           [openai_request EXCEPT
               !.model = map_claude_model_to_openai(claude_request.model, bridge_config)]
    /\ call_pc' = "mapped"
    /\ UNCHANGED <<claude_request, bridge_config, upstream_reply, upstream_result>>
    /\ UNCHANGED handler_vars
    /\ UNCHANGED conv_vars
    /\ UNCHANGED stream_vars
    /\ UNCHANGED session_vars

\* mod.rs:41-42 and tools.rs:22-26
DeriveReasoningEffort ==
    /\ call_pc = "mapped"
    /\ openai_request' =
           [openai_request EXCEPT
               !.reasoning_effort =
                   derive_reasoning_effort(claude_request.thinking,
                                           claude_request.max_tokens,
                                           openai_request.model)]
    /\ call_pc' = "converted"
    /\ UNCHANGED <<claude_request, bridge_config, upstream_reply, upstream_result>>
    /\ UNCHANGED handler_vars
    /\ UNCHANGED conv_vars
    /\ UNCHANGED stream_vars
    /\ UNCHANGED session_vars

NextFields ==
    \/ MapModel
    \/ DeriveReasoningEffort

SpecFields == InitFields /\ [][NextFields]_vars

(***************************************************************************)
(* Decoding a buffered upstream reply (upstream.rs, errors.rs)             *)
(***************************************************************************)
BODY_PREVIEW_LIMIT == 1024

BAD_GATEWAY == 502

\* a body is its characters when it is valid UTF-8 and its bytes otherwise
Utf8Body(text) == [utf8 |-> TRUE, units |-> text]

RawBody(bytes) == [utf8 |-> FALSE, units |-> bytes]

HexDigits ==
    <<"0", "1", "2", "3", "4", "5", "6", "7", "8", "9", "a", "b", "c", "d", "e", "f">>

\* format!("{byte:02x}")
Hex2(byte) == <<HexDigits[(byte \div 16) + 1], HexDigits[(byte % 16) + 1]>>

RECURSIVE HexOf(_)
HexOf(bytes) == IF bytes = <<>> THEN <<>> ELSE Hex2(Head(bytes)) \o HexOf(Tail(bytes))

Truncated ==
    <<".", ".", ".", "(", "t", "r", "u", "n", "c", "a", "t", "e", "d", ")">>

\* upstream.rs:518-526
preview_text(text, limit) ==
    IF Len(text) <= limit THEN text
    ELSE SubSeq(text, 1, limit) \o Truncated

\* upstream.rs:500-516
preview_bytes(body, limit) ==
    IF body.utf8 THEN preview_text(body.units, limit)
    ELSE LET len == IF Len(body.units) < limit THEN Len(body.units) ELSE limit
             preview == HexOf(SubSeq(body.units, 1, len))
                            \o (IF Len(body.units) > limit THEN Truncated ELSE <<>>)
         IN <<"<", "n", "o", "n", "-", "u", "t", "f", "8", " ", "h", "e", "x", ":", " ">>
                \o preview \o <<">">>

\* Display of reqwest::StatusCode
StatusText(status) ==
    CASE status = 200 -> <<"2", "0", "0", " ", "O", "K">>
      [] status = 201 -> <<"2", "0", "1", " ", "C", "r", "e", "a", "t", "e", "d">>
      [] OTHER -> <<"2", "0", "3", " ", "N", "o", "n", "-", "A", "u", "t", "h", "o", "r", "i",
                    "t", "a", "t", "i", "v", "e", " ", "I", "n", "f", "o", "r", "m", "a", "t",
                    "i", "o", "n">>

\* errors.rs:11-42
classify_openai_error(detail) ==
    LET lowered == to_lowercase(detail)
    IN IF \/ contains(lowered, <<"u", "n", "s", "u", "p", "p", "o", "r", "t", "e", "d", "_",
                                 "c", "o", "u", "n", "t", "r", "y", "_", "r", "e", "g", "i",
                                 "o", "n", "_", "t", "e", "r", "r", "i", "t", "o", "r", "y">>)
          \/ contains(lowered, <<"c", "o", "u", "n", "t", "r", "y", ",", " ", "r", "e", "g",
                                 "i", "o", "n", ",", " ", "o", "r", " ", "t", "e", "r", "r",
                                 "i", "t", "o", "r", "y", " ", "n", "o", "t", " ", "s", "u",
                                 "p", "p", "o", "r", "t", "e", "d">>)
       THEN <<"O", "p", "e", "n", "A", "I", " ", "A", "P", "I", " ", "i", "s", " ", "n", "o",
              "t", " ", "a", "v", "a", "i", "l", "a", "b", "l", "e", " ", "i", "n", " ", "y",
              "o", "u", "r", " ", "r", "e", "g", "i", "o", "n", ".", " ", "C", "o", "n", "s",
              "i", "d", "e", "r", " ", "u", "s", "i", "n", "g", " ", "A", "z", "u", "r", "e",
              " ", "O", "p", "e", "n", "A", "I", " ", "o", "r", " ", "a", " ", "c", "o", "m",
              "p", "a", "t", "i", "b", "l", "e", " ", "r", "e", "g", "i", "o", "n", "a", "l",
              " ", "p", "r", "o", "v", "i", "d", "e", "r", ".">>
       ELSE IF \/ contains(lowered, <<"i", "n", "v", "a", "l", "i", "d", "_", "a", "p", "i",
                                      "_", "k", "e", "y">>)
               \/ contains(lowered, <<"u", "n", "a", "u", "t", "h", "o", "r", "i", "z", "e",
                                      "d">>)
       THEN <<"I", "n", "v", "a", "l", "i", "d", " ", "A", "P", "I", " ", "k", "e", "y", ".",
              " ", "P", "l", "e", "a", "s", "e", " ", "v", "e", "r", "i", "f", "y", " ", "O",
              "P", "E", "N", "A", "I", "_", "A", "P", "I", "_", "K", "E", "Y", " ", "c", "o",
              "n", "f", "i", "g", "u", "r", "a", "t", "i", "o", "n", ".">>
       ELSE IF \/ contains(lowered, <<"r", "a", "t", "e", "_", "l", "i", "m", "i", "t">>)
               \/ contains(lowered, <<"q", "u", "o", "t", "a">>)
       THEN <<"R", "a", "t", "e", " ", "l", "i", "m", "i", "t", " ", "e", "x", "c", "e", "e",
              "d", "e", "d", ".", " ", "P", "l", "e", "a", "s", "e", " ", "r", "e", "t", "r",
              "y", " ", "l", "a", "t", "e", "r", " ", "o", "r", " ", "u", "p", "g", "r", "a",
              "d", "e", " ", "y", "o", "u", "r", " ", "u", "p", "s", "t", "r", "e", "a", "m",
              " ", "q", "u", "o", "t", "a", ".">>
       ELSE IF /\ contains(lowered, <<"m", "o", "d", "e", "l">>)
               /\ \/ contains(lowered, <<"n", "o", "t", " ", "f", "o", "u", "n", "d">>)
                  \/ contains(lowered, <<"d", "o", "e", "s", " ", "n", "o", "t", " ", "e", "x",
                                         "i", "s", "t">>)
       THEN <<"M", "o", "d", "e", "l", " ", "n", "o", "t", " ", "f", "o", "u", "n", "d", ".",
              " ", "P", "l", "e", "a", "s", "e", " ", "c", "h", "e", "c", "k", " ", "B", "I",
              "G", "_", "M", "O", "D", "E", "L", " ", "/", " ", "M", "I", "D", "D", "L", "E",
              "_", "M", "O", "D", "E", "L", " ", "/", " ", "S", "M", "A", "L", "L", "_", "M",
              "O", "D", "E", "L", " ", "m", "a", "p", "p", "i", "n", "g", "s", ".">>
       ELSE IF \/ contains(lowered, <<"b", "i", "l", "l", "i", "n", "g">>)
               \/ contains(lowered, <<"p", "a", "y", "m", "e", "n", "t">>)
       THEN <<"B", "i", "l", "l", "i", "n", "g", " ", "i", "s", "s", "u", "e", " ", "d", "e",
              "t", "e", "c", "t", "e", "d", ".", " ", "P", "l", "e", "a", "s", "e", " ", "v",
              "e", "r", "i", "f", "y", " ", "u", "p", "s", "t", "r", "e", "a", "m", " ", "a",
              "c", "c", "o", "u", "n", "t", " ", "b", "i", "l", "l", "i", "n", "g", " ", "s",
              "t", "a", "t", "u", "s", ".">>
       ELSE detail

\* bodies serde_json::from_slice::<T> accepts
ExpectedJsonBodies ==
    {Utf8Body(<<"{", "\"", "i", "d", "\"", ":", "\"", "r", "\"", ",", "\"", "c", "h", "o", "i",
                "c", "e", "s", "\"", ":", "[", "]", "}">>)}

\* bodies that are JSON, of another shape than T
OtherJsonBodies ==
    {Utf8Body(<<"{", "}">>),
     Utf8Body(<<"{", "\"", "e", "r", "r", "o", "r", "\"", ":", "\"", "U", "n", "a", "u", "t",
                "h", "o", "r", "i", "z", "e", "d", "\"", "}">>)}

\* Display of the serde_json::Error of a body from_slice rejects (the
\* backquotes around the field name are left out)
ParseError(body) ==
    IF body \in OtherJsonBodies
    THEN <<"m", "i", "s", "s", "i", "n", "g", " ", "f", "i", "e", "l", "d", " ", "i", "d", " ",
           "a", "t", " ", "l", "i", "n", "e", " ", "1", " ", "c", "o", "l", "u", "m", "n", " ",
           "2">>
    ELSE IF body.units = <<>>
    THEN <<"E", "O", "F", " ", "w", "h", "i", "l", "e", " ", "p", "a", "r", "s", "i", "n", "g",
           " ", "a", " ", "v", "a", "l", "u", "e", " ", "a", "t", " ", "l", "i", "n", "e", " ",
           "1", " ", "c", "o", "l", "u", "m", "n", " ", "0">>
    ELSE <<"e", "x", "p", "e", "c", "t", "e", "d", " ", "v", "a", "l", "u", "e", " ", "a", "t",
           " ", "l", "i", "n", "e", " ", "1", " ", "c", "o", "l", "u", "m", "n", " ", "1">>

\* upstream.rs:484-498
decode_json_body(status, content_type, body) ==
    IF body \in ExpectedJsonBodies THEN [ok |-> TRUE, status |-> status, message |-> <<>>]
    ELSE LET body_preview == preview_bytes(body, BODY_PREVIEW_LIMIT)
         IN [ok |-> FALSE,
             status |-> BAD_GATEWAY,
             message |-> classify_openai_error(
                 <<"f", "a", "i", "l", "e", "d", " ", "t", "o", " ", "p", "a", "r", "s", "e",
                   " ", "u", "p", "s", "t", "r", "e", "a", "m", " ", "J", "S", "O", "N", " ",
                   "r", "e", "s", "p", "o", "n", "s", "e", " ", "(", "s", "t", "a", "t", "u",
                   "s", ":", " ">>
                 \o StatusText(status)
                 \o <<",", " ", "c", "o", "n", "t", "e", "n", "t", "-", "t", "y", "p", "e",
                      ":", " ">>
                 \o content_type
                 \o <<",", " ", "b", "o", "d", "y", "-", "p", "r", "e", "v", "i", "e", "w",
                      ":", " ">>
                 \o body_preview
                 \o <<")", ":", " ">>
                 \o ParseError(body))]

UpstreamStatuses == {200, 201, 203}

ContentTypes ==
    {<<"a", "p", "p", "l", "i", "c", "a", "t", "i", "o", "n", "/", "j", "s", "o", "n">>,
     <<"t", "e", "x", "t", "/", "h", "t", "m", "l">>,
     <<"t", "e", "x", "t", "/", "p", "l", "a", "i", "n", ";", " ", "c", "h", "a", "r", "s",
       "e", "t", "=", "u", "t", "f", "-", "8">>,
     <<>>}

UpstreamBodies ==
    ExpectedJsonBodies \cup OtherJsonBodies
        \cup {Utf8Body(<<"<", "h", "t", "m", "l", ">", "<", "b", "o", "d", "y", ">", "u", "p",
                         "s", "t", "r", "e", "a", "m", " ", "g", "a", "t", "e", "w", "a", "y",
                         " ", "f", "a", "i", "l", "e", "d", "<", "/", "b", "o", "d", "y", ">",
                         "<", "/", "h", "t", "m", "l", ">">>),
              Utf8Body(<<"q", "u", "o", "t", "a", " ", "e", "x", "c", "e", "e", "d", "e", "d">>),
              Utf8Body(<<"u", "p", "s", "t", "r", "e", "a", "m", " ", "m", "o", "d", "e", "l",
                         " ", "d", "o", "e", "s", " ", "n", "o", "t", " ", "e", "x", "i", "s",
                         "t">>),
              Utf8Body(<<"P", "a", "y", "m", "e", "n", "t", " ", "R", "e", "q", "u", "i", "r",
                         "e", "d">>),
              Utf8Body(<<>>),
              Utf8Body([i \in 1..(BODY_PREVIEW_LIMIT + 1) |-> "x"]),
              RawBody(<<255, 254, 0>>)}

InitDecode ==
    /\ ConvIdle
    /\ StreamIdle
    /\ SessionIdle
    /\ HandlerIdle
    /\ claude_request = <<>>
    /\ bridge_config = <<>>
    /\ openai_request = <<>>
    /\ upstream_reply \in [status : UpstreamStatuses, content_type : ContentTypes,
                           body : UpstreamBodies]
    /\ upstream_result = NoResult
    /\ call_pc = "replied"

\* upstream.rs:369-413, the end of chat_completion and responses
DecodeJsonBody ==
    /\ call_pc = "replied"
    /\ upstream_result' = decode_json_body(upstream_reply.status,
                                           upstream_reply.content_type,
                                           upstream_reply.body)
    /\ call_pc' = "decoded"
    /\ UNCHANGED <<claude_request, bridge_config, openai_request, upstream_reply>>
    /\ UNCHANGED handler_vars
    /\ UNCHANGED conv_vars
    /\ UNCHANGED stream_vars
    /\ UNCHANGED session_vars

NextDecode == DecodeJsonBody

SpecDecode == InitDecode /\ [][NextDecode]_vars

(***************************************************************************)
(* C18                                                                     *)
(***************************************************************************)
NativePrefixes ==
    {<<"g", "p", "t", "-">>,
     <<"o", "1", "-">>,
     <<"o", "3", "-">>,
     <<"o", "4", "-">>,
     <<"e", "p", "-">>,
     <<"d", "o", "u", "b", "a", "o", "-">>,
     <<"d", "e", "e", "p", "s", "e", "e", "k", "-">>}

\* C18: a requested model name that case-insensitively begins with gpt-, o1-,
\* o3-, o4-, ep-, doubao- or deepseek- is passed to the upstream unchanged;
\* any other name maps to small_model if it contains "haiku", else to
\* middle_model if it contains "sonnet", else to big_model.
C18_ModelRouting ==
    call_pc \in {"mapped", "converted"} =>
        LET requested == claude_request.model
            lowered == to_lowercase(requested)
        IN openai_request.model =
               IF \E prefix \in NativePrefixes : starts_with(lowered, prefix)
               THEN requested
               ELSE IF contains(lowered, <<"h", "a", "i", "k", "u">>)
               THEN bridge_config.small_model
               ELSE IF contains(lowered, <<"s", "o", "n", "n", "e", "t">>)
               THEN bridge_config.middle_model
               ELSE bridge_config.big_model

(***************************************************************************)
(* C19                                                                     *)
(***************************************************************************)
EffortsByRank == <<"low", "medium", "high">>

RankOf(effort) == CHOOSE r \in DOMAIN EffortsByRank : EffortsByRank[r] = effort

HigherRanked(a, b) == IF RankOf(a) >= RankOf(b) THEN a ELSE b

AbsoluteBudgetEffort(budget) ==
    IF budget <= 2048 THEN "low" ELSE IF budget <= 8192 THEN "medium" ELSE "high"

\* budget / max_tokens < 1/4, <= 6/10, above; medium when max_tokens = 0
BudgetRatioEffort(budget, max_tokens) ==
    IF max_tokens = 0 THEN "medium"
    ELSE IF budget * 4 < max_tokens THEN "low"
    ELSE IF budget * 10 <= max_tokens * 6 THEN "medium"
    ELSE "high"

ReasoningModelPrefixes ==
    {<<"o", "1">>,
     <<"o", "3">>,
     <<"o", "4">>,
     <<"g", "p", "t", "-", "5">>}

IsReasoningModel(model) ==
    \E prefix \in ReasoningModelPrefixes : starts_with(to_lowercase(model), prefix)

ThinkingSwitchedOff(thinking) ==
    /\ thinking.present
    /\ IsSome(thinking.thinking_type)
    /\ \/ to_lowercase(Trim(thinking.thinking_type)) = <<"d", "i", "s", "a", "b", "l", "e", "d">>
       \/ to_lowercase(Trim(thinking.thinking_type)) = <<"o", "f", "f">>
       \/ to_lowercase(Trim(thinking.thinking_type)) = <<"n", "o", "n", "e">>

\* C19: for an upstream model whose lowercased name starts with o1, o3, o4 or
\* gpt-5 the effort is low when thinking is absent or disabled/off/none,
\* medium when thinking is enabled without budget_tokens, and otherwise the
\* higher-ranked of the absolute-budget effort and the ratio effort; for
\* every other model there is no effort.
C19_ReasoningEffort ==
    call_pc = "converted" =>
        LET thinking == claude_request.thinking
            effort == openai_request.reasoning_effort
        IN IF IsReasoningModel(openai_request.model)
           THEN /\ (~thinking.present \/ ThinkingSwitchedOff(thinking))
                       => effort = <<"low">>
                /\ ( /\ thinking.present
                     /\ IsSome(thinking.thinking_type)
                     /\ ~ThinkingSwitchedOff(thinking)
                     /\ thinking.budget_tokens = <<>> )
                       => effort = <<"medium">>
                /\ ( /\ thinking.present
                     /\ ~ThinkingSwitchedOff(thinking)
                     /\ thinking.budget_tokens # <<>> )
                       => effort =
                              <<HigherRanked(
                                    AbsoluteBudgetEffort(thinking.budget_tokens[1]),
                                    BudgetRatioEffort(thinking.budget_tokens[1],
                                                      claude_request.max_tokens))>>
           ELSE effort = NoEffort

\* a reasoning model, thinking enabled with a budget that is low in absolute
\* terms and high relative to max_tokens: the effort is high
C19_Witness ==
    /\ call_pc = "converted"
    /\ IsReasoningModel(openai_request.model)
    /\ claude_request.thinking.present
    /\ ~ThinkingSwitchedOff(claude_request.thinking)
    /\ claude_request.thinking.budget_tokens # <<>>
    /\ claude_request.max_tokens > 0
    /\ AbsoluteBudgetEffort(claude_request.thinking.budget_tokens[1]) = "low"
    /\ BudgetRatioEffort(claude_request.thinking.budget_tokens[1],
                         claude_request.max_tokens) = "high"
    /\ openai_request.reasoning_effort = <<"high">>

(***************************************************************************)
(* C20                                                                     *)
(***************************************************************************)
\* C20: for every successful-status reply whose body does not decode as the
\* expected JSON, the client facade returns an error with status 502 whose
\* message contains "status:", "content-type:" and "body-preview:", whatever
\* text the body contains.
C20_ParseFailureIsBadGateway ==
    (call_pc = "decoded" /\ upstream_reply.body \notin ExpectedJsonBodies) =>
        /\ ~upstream_result.ok
        /\ upstream_result.status = 502
        /\ contains(upstream_result.message, <<"s", "t", "a", "t", "u", "s", ":">>)
        /\ contains(upstream_result.message, <<"c", "o", "n", "t", "e", "n", "t", "-", "t",
                                               "y", "p", "e", ":">>)
        /\ contains(upstream_result.message, <<"b", "o", "d", "y", "-", "p", "r", "e", "v",
                                               "i", "e", "w", ":">>)

(***************************************************************************)
(* Client authentication and the create_message handler (handlers.rs,      *)
(* config.rs).  Header values are sequences of characters; an absent       *)
(* header or Option::None is None.                                         *)
(***************************************************************************)
\* str::split_once: the parts around the first delimiter, if there is one
split_once(s, delimiter) ==
    IF \E i \in DOMAIN s : s[i] = delimiter
    THEN LET first == CHOOSE i \in DOMAIN s :
                          /\ s[i] = delimiter
                          /\ \A j \in 1..(i - 1) : s[j] # delimiter
         IN [found |-> TRUE, before |-> SubSeq(s, 1, first - 1),
             after |-> SubSeq(s, first + 1, Len(s))]
    ELSE [found |-> FALSE, before |-> s, after |-> <<>>]

\* str::eq_ignore_ascii_case
eq_ignore_ascii_case(a, b) == to_lowercase(a) = to_lowercase(b)

ClientAuth(base_key, device_tag) ==
    [some |-> TRUE, base_key |-> base_key, device_tag |-> device_tag]

\* Option<ClientAuth>::None
NoClientAuth == [some |-> FALSE, base_key |-> None, device_tag |-> None]

\* ClientAuth::default()
DefaultClientAuth == ClientAuth(None, None)

\* handlers.rs:573-584
parse_bearer_token(authorization) ==
    LET parts == split_once(Trim(authorization), " ")
    IN IF ~parts.found THEN None
       ELSE IF ~eq_ignore_ascii_case(parts.before, <<"b", "e", "a", "r", "e", "r">>) THEN None
       ELSE IF Trim(parts.after) = <<>> THEN None
       ELSE Trim(parts.after)

\* handlers.rs:555-571
extract_raw_client_key(req) ==
    LET x_api_key == IF req.x_api_key = None \/ Trim(req.x_api_key) = <<>>
                     THEN None
                     ELSE Trim(req.x_api_key)
    IN IF x_api_key # None THEN x_api_key
       ELSE IF req.authorization = None THEN None
       ELSE parse_bearer_token(req.authorization)

\* handlers.rs:586-609
parse_client_auth(raw_key) ==
    LET normalized == Trim(raw_key)
        parts == split_once(normalized, "|")
        base_key == Trim(parts.before)
        device_tag == IF parts.found /\ Trim(parts.after) # <<>>
                      THEN Trim(parts.after)
                      ELSE None
    IN IF normalized = <<>> THEN NoClientAuth
       ELSE IF base_key = <<>> THEN NoClientAuth
       ELSE ClientAuth(base_key, device_tag)

\* handlers.rs:550-553
extract_client_auth(req) ==
    LET raw_key == extract_raw_client_key(req)
    IN IF raw_key = None THEN NoClientAuth ELSE parse_client_auth(raw_key)

\* config.rs:189-194
validate_client_api_key(expected, provided_key) ==
    IF expected # None
    THEN provided_key # None /\ provided_key = expected
    ELSE TRUE

\* handlers.rs:531-548
validate_client_api_key_header(req, expected) ==
    LET client_auth == extract_client_auth(req)
    IN IF expected = None
       THEN [ok |-> TRUE,
             auth |-> IF client_auth.some THEN client_auth ELSE DefaultClientAuth]
       ELSE IF ~client_auth.some
       THEN [ok |-> FALSE, auth |-> NoClientAuth]
       ELSE [ok |-> validate_client_api_key(expected, client_auth.base_key),
             auth |-> client_auth]

\* handlers.rs:463-474; the SHA-256 digest of ip|key|device is taken to be
\* free of collisions, the three components stand for it
build_identity_key(req, client_auth) ==
    <<req.peer,
      IF client_auth.base_key = None THEN <<"a", "n", "o", "n", "y", "m", "o", "u", "s">> ELSE client_auth.base_key,
      IF client_auth.device_tag = None THEN <<"-">> ELSE client_auth.device_tag>>

\* create_message goes on after a failed validation
create_message_without_return(ok) == "parse"

\* handlers.rs:40-46: the position of create_message after the validation
create_message_after_validation(ok) == IF ok THEN "parse" ELSE "returned"

UNAUTHORIZED == 401

BAD_REQUEST == 400

ConfiguredKey == <<"k">>

XApiKeyValues ==
    {None,
     <<"k">>,
     <<"w">>,
     <<"k", "|", "t">>,
     <<"w", "|", "k">>,
     <<"k", " ", "|", "t">>}

AuthorizationValues ==
    {None,
     <<"B", "e", "a", "r", "e", "r", " ", "k">>,
     <<"b", "E", "A", "R", "E", "R", " ", "k", "|", "t">>,
     <<"B", "e", "a", "r", "e", "r", " ", "w">>,
     <<"B", "a", "s", "i", "c", " ", "k">>,
     <<"B", "e", "a", "r", "e", "r", " ", " ", "k">>}

Requests ==
    [x_api_key : XApiKeyValues, authorization : AuthorizationValues,
     body_ok : BOOLEAN, peer : {<<"p">>}]

InitHandler ==
    /\ ConvIdle
    /\ StreamIdle
    /\ claude_request = <<>>
    /\ bridge_config = <<>>
    /\ openai_request = <<>>
    /\ upstream_reply = <<>>
    /\ upstream_result = <<>>
    /\ call_pc = "idle"
    /\ manager = NewSessionManager(60, 3600, 60)
    /\ store = NewSessionStore
    /\ clock = 0
    /\ next_uuid = 0
    /\ session_log = <<>>
    /\ last_call = Call("new", "", 0, 0, EmptySessions, 0)
    /\ session_steps = 0
    /\ tasks = <<>>
    /\ lock = <<>>
    /\ http_request = <<>>
    /\ anthropic_api_key \in {None, ConfiguredKey}
    /\ http_response = 0
    /\ handler_pc = "idle"
    /\ upstream_sent = 0

HandlerFrame ==
    /\ UNCHANGED <<claude_request, bridge_config, openai_request, upstream_reply,
                   upstream_result, call_pc>>
    /\ UNCHANGED <<manager, session_log, tasks, lock, anthropic_api_key>>
    /\ UNCHANGED conv_vars
    /\ UNCHANGED stream_vars

\* the identity and the credentials create_message works with
IdentityKey == build_identity_key(http_request, extract_client_auth(http_request))

\* handlers.rs:32, 37-38: a POST /v1/messages request reaches create_message;
\* last_call keeps the session map and the upstream count it found
ReceiveRequest ==
    /\ handler_pc \in {"idle", "returned"}
    /\ session_steps < MaxRequests
    /\ session_steps' = session_steps + 1
    /\ http_request' \in Requests
    /\ http_response' = 0
    /\ handler_pc' = "validate"
    /\ clock' = clock + 60
    /\ last_call' = Call("create_message", "", 0, clock', store.sessions, upstream_sent)
    /\ UNCHANGED <<store, next_uuid, upstream_sent>>
    /\ HandlerFrame

\* handlers.rs:39-46
ValidateClientKey ==
    /\ handler_pc = "validate"
    /\ LET validated == validate_client_api_key_header(http_request, anthropic_api_key)
       IN /\ http_response' = IF validated.ok THEN http_response ELSE UNAUTHORIZED
          /\ handler_pc' = create_message_after_validation(validated.ok)
    /\ UNCHANGED <<http_request, store, clock, next_uuid, upstream_sent, last_call,
                   session_steps>>
    /\ HandlerFrame

\* handlers.rs:48-51, 210-225
ParseMessagesRequest ==
    /\ handler_pc = "parse"
    /\ IF http_request.body_ok
       THEN /\ handler_pc' = "resolve"
            /\ UNCHANGED http_response
       ELSE /\ handler_pc' = "returned"
            /\ http_response' = BAD_REQUEST
    /\ UNCHANGED <<http_request, store, clock, next_uuid, upstream_sent, last_call,
                   session_steps>>
    /\ HandlerFrame

\* handlers.rs:72-73
ResolveSession ==
    /\ handler_pc = "resolve"
    /\ LET resolved == resolve_session_id(manager, store, IdentityKey, clock,
                                          next_uuid + 1)
       IN /\ store' = resolved.store
          /\ next_uuid' = IF resolved.issued THEN next_uuid + 1 ELSE next_uuid
    /\ handler_pc' = "upstream"
    /\ UNCHANGED <<http_request, http_response, clock, upstream_sent, last_call,
                   session_steps>>
    /\ HandlerFrame

\* handlers.rs:251-261, 296-302: the upstream call, which succeeds or fails
\* with the status the upstream error carries (0 for success)
SendUpstream ==
    /\ handler_pc = "upstream"
    /\ upstream_sent' = upstream_sent + 1
    /\ \E error_status \in {0, UNAUTHORIZED, BAD_GATEWAY} :
           IF error_status = 0
           THEN /\ handler_pc' = "credit"
                /\ UNCHANGED http_response
           ELSE /\ handler_pc' = "returned"
                /\ http_response' = error_status
    /\ UNCHANGED <<http_request, store, clock, next_uuid, last_call, session_steps>>
    /\ HandlerFrame

\* handlers.rs:263-270, 304-311
CreditUsage ==
    /\ handler_pc = "credit"
    /\ LET added == add_usage(store, IdentityKey, SESSION_TTL_TOKEN_K, clock,
                              next_uuid + 1)
       IN /\ store' = added.store
          /\ next_uuid' = IF added.issued THEN next_uuid + 1 ELSE next_uuid
    /\ http_response' = 200  \* the status of a rendered reply
    /\ handler_pc' = "returned"
    /\ UNCHANGED <<http_request, clock, upstream_sent, last_call, session_steps>>
    /\ HandlerFrame

NextHandler ==
    \/ ReceiveRequest
    \/ ValidateClientKey
    \/ ParseMessagesRequest
    \/ ResolveSession
    \/ SendUpstream
    \/ CreditUsage

SpecHandler == InitHandler /\ [][NextHandler]_vars

(***************************************************************************)
(* C21                                                                     *)
(***************************************************************************)
\* the part of a credential before its first '|'
PartBeforeFirstBar(credential) ==
    LET bars == {i \in DOMAIN credential : credential[i] = "|"}
    IN IF bars = {} THEN credential
       ELSE SubSeq(credential, 1, (CHOOSE i \in bars : \A j \in bars : i <= j) - 1)

XApiKeyCarries(req, key) ==
    /\ req.x_api_key # None
    /\ PartBeforeFirstBar(req.x_api_key) = key

BearerCarries(req, key) ==
    /\ req.authorization # None
    /\ \E i \in DOMAIN req.authorization :
           /\ req.authorization[i] = " "
           /\ to_lowercase(SubSeq(req.authorization, 1, i - 1))
                  = <<"b", "e", "a", "r", "e", "r">>
           /\ PartBeforeFirstBar(SubSeq(req.authorization, i + 1,
                                        Len(req.authorization))) = key

\* C21: when anthropic_api_key is configured, a request is accepted if and
\* only if its x-api-key header or its Authorization: Bearer header (scheme
\* case-insensitive) carries a credential whose part before the first '|'
\* equals the configured key, and every other request is answered 401; when
\* no key is configured every request is accepted.
C21_ClientAuthentication ==
    [][ handler_pc = "validate" =>
            /\ handler_pc' = "parse"
                   <=> IF anthropic_api_key = None THEN TRUE
                       ELSE \/ XApiKeyCarries(http_request, anthropic_api_key)
                            \/ BearerCarries(http_request, anthropic_api_key)
            /\ handler_pc' # "parse"
                   => (handler_pc' = "returned" /\ http_response' = UNAUTHORIZED) ]_vars

(***************************************************************************)
(* C30                                                                     *)
(***************************************************************************)
Validated == handler_pc \notin {"idle", "validate"}

FailsValidation ==
    /\ Validated
    /\ ~validate_client_api_key_header(http_request, anthropic_api_key).ok

\* C30: a POST /v1/messages request that fails client-key validation is
\* answered 401 and create_message returns: the session map is the one the
\* request found (no entry created, none touched, no usage credited) and no
\* upstream request was sent for it.
C30_RejectedRequestNoSideEffects ==
    FailsValidation =>
        /\ http_response = UNAUTHORIZED
        /\ handler_pc = "returned"
        /\ store.sessions = last_call.before
        /\ upstream_sent = last_call.result

\* a request with a wrong key is rejected after an earlier one, a minute
\* before, was served: its session entry and the upstream count are as the
\* rejected request found them
C30_Witness ==
    /\ FailsValidation
    /\ http_response = UNAUTHORIZED
    /\ http_request.x_api_key # None
    /\ DOMAIN store.sessions # {}
    /\ \A identity \in DOMAIN store.sessions :
           /\ store.sessions[identity].last_seen < last_call.now
           /\ store.sessions[identity].total_tokens > 0
    /\ upstream_sent = 1

====
